---- MODULE Spec2Model ----
(***************************************************************************)
(* Interview practice simulator: the Streamlit session engine of           *)
(* app_cloud.py (src/unnamed/part_000, app = "cloud") and of the enhanced  *)
(* edition (src/updateapp.py, app = "enhanced").                           *)
(*                                                                         *)
(* st.session_state is the state; one action is one user event together   *)
(* with every script run it causes: the run that handles the event and,    *)
(* when the handler ends in st.rerun(), the run that follows it.  The      *)
(* value typed into a text widget is the input of the action that submits  *)
(* it.  Text is a sequence of characters, so that strip(), split() and the *)
(* file-name sanitiser are computed and not assumed.                       *)
(***************************************************************************)
EXTENDS Integers, Sequences, FiniteSets, TLC

VARIABLES
    app,              \* which of the two programs runs: "cloud" | "enhanced"
    app_mode,         \* st.session_state.app_mode, the sidebar radio
    phase,            \* st.session_state.phase; "none" when the key is absent
    student_name,     \* st.session_state.student_name
    api_key,          \* st.session_state.api_key: "key" | "none" (None)
    q_index,          \* q_index (cloud) / current_question (enhanced)
    questions,        \* questions / session_questions: [typed, video]
    typed_responses,  \* st.session_state.typed_responses
    video_responses,  \* st.session_state.video_responses
    timer_started,    \* the keys timer_started_{idx}: idx -> BOOLEAN
    timer_end,        \* the keys timer_end_{idx}: idx -> instant
    display,          \* the number shown in the timer-big element
    banner,           \* st.success / st.warning of the completion page
    now,              \* the wall clock, in ticks
    store,            \* the files of RESPONSES_DIR: file name -> content
    session,          \* history: how many sessions were started
    feedback_calls,   \* history: how many times get_ai_feedback was called
    last,             \* history: the last event, its input, its phase
    catalog,          \* all_questions, the argument of the selection
    typed_count,      \* typed_count, the argument of the selection
    video_count,      \* video_count, the argument of the selection
    disk,             \* RESPONSES_DIR as text: file name -> characters
    writers,          \* the calls of save_session: where each one is
    loader,           \* the call of load_all_sessions: where it is
    csv,              \* the dashboard's export: selection and rows
    call,             \* get_ai_feedback: "idle", or "pending" while the run
                      \* of the click waits in client.messages.create
    session_id,       \* the second in which the session was started, <<>>
                      \* when there is none: st.session_state.session_id
                      \* (enhanced); history in the cloud edition
    recorder          \* the script of video_recorder_component in the
                      \* browser: its variables and the elements it sets

vars == <<app, app_mode, phase, student_name, api_key, q_index, questions,
          typed_responses, video_responses, timer_started, timer_end,
          display, banner, now, store, session, feedback_calls, last,
          catalog, typed_count, video_count, disk, writers, loader, csv,
          call, session_id, recorder>>

\* the arguments of select_session_questions: fixed while a session runs
selvars == <<catalog, typed_count, video_count>>

\* the text of the files and the calls that work on it: followed in
\* SpecStore, where a save is not one step
iovars == <<disk, writers, loader, csv>>

-----------------------------------------------------------------------------
(* Bounds of the model *)

\* clock resolution: ticks per second (time.time() is a float)
TicksPerSecond == 2

\* how many sessions one browser session starts
MaxSessions == 1

(* Program constants *)

\* time.time() + 60
TimerSeconds == 60

\* select_session_questions(all_questions, typed_count=5, video_count=5)
DefaultTypedCount == 5
DefaultVideoCount == 5

TimerTicks == TimerSeconds * TicksPerSecond

\* The instants at which the clock is observed: around the start of a
\* countdown, just before its expiry and a second after it.
Instants == {0, 1, TimerTicks - 1, TimerTicks + TicksPerSecond}

-----------------------------------------------------------------------------
(* Text *)

SPACE == " "

IsAlnum(c) == c \in {"A", "B", "a", "b", "n"}

Min(a, b) == IF a < b THEN a ELSE b
Max(a, b) == IF a > b THEN a ELSE b

RECURSIVE LStrip(_)
LStrip(s) ==
    IF s = <<>> THEN <<>>
    ELSE IF Head(s) = SPACE THEN LStrip(Tail(s)) ELSE s

RECURSIVE RStrip(_)
RStrip(s) ==
    IF s = <<>> THEN <<>>
    ELSE IF s[Len(s)] = SPACE THEN RStrip(SubSeq(s, 1, Len(s) - 1)) ELSE s

\* str.strip()
Strip(s) == RStrip(LStrip(s))

\* bool(s): a str is truthy when it is not empty
Truthy(s) == s # <<>>

\* len(s.split()): the number of maximal runs of non-space characters
WordCount(s) ==
    Cardinality({i \in 1..Len(s) :
        s[i] # SPACE /\ (i = 1 \/ s[i - 1] = SPACE)})

\* "".join(c for c in student_name if c.isalnum() or c == ' ')
\*    .strip().replace(' ', '_')        (enhanced also keeps '-' and '_')
SafeNameKeeps(a, c) ==
    IsAlnum(c) \/ c = SPACE \/ (a = "enhanced" /\ c \in {"-", "_"})

SafeName(a, name) ==
    LET kept == SelectSeq(name, LAMBDA c : SafeNameKeeps(a, c))
        s    == Strip(kept)
    IN [i \in 1..Len(s) |-> IF s[i] = SPACE THEN "_" ELSE s[i]]

-----------------------------------------------------------------------------
(* Question catalog and selection *)

Q(id, cat, type) ==
    [id |-> id, category |-> cat, type |-> type, question |-> <<"q", id>>]

\* get_default_questions() of app_cloud.py
DefaultQuestions == << Q("A1", "A", "both"), Q("B1", "B", "both") >>

\* a questions.json with typed-only, both and video-only questions
FileQuestions ==
    << Q("T1", "A", "typed"), Q("X1", "A", "both"),
       Q("V1", "B", "video"), Q("V2", "B", "video") >>

Ids(qs) == {qs[i].id : i \in 1..Len(qs)}

\* mutant of TypedEligible: the filter on the type is forgotten
TypedEligible_All(all) == all

TypedEligible(all) == SelectSeq(all, LAMBDA q : q.type \in {"typed", "both"})
VideoEligible(all) == SelectSeq(all, LAMBDA q : q.type \in {"video", "both"})

\* the sequences of k elements of s at distinct positions, in any order:
\* random.sample(s, k); with k = len(s), random.shuffle(s)
Arrangements(s, k) ==
    LET idx == {f \in [1..k -> 1..Len(s)] :
                   \A i, j \in 1..k : i # j => f[i] # f[j]}
    IN {[i \in 1..k |-> s[f[i]]] : f \in idx}

Shuffles(s) == Arrangements(s, Len(s))

\* the slice s[:n], with Python's meaning of a negative n
Take(s, n) ==
    IF n >= 0 THEN SubSeq(s, 1, Min(n, Len(s)))
    ELSE SubSeq(s, 1, Max(0, Len(s) + n))

\* mutant of NotUsed: the exclusion of used ids is forgotten
NotUsed_KeepsAll(qs, used) == qs

NotUsed(qs, used) == SelectSeq(qs, LAMBDA q : q.id \notin used)

\* select_session_questions of app_cloud.py: every result it can return
SelectCloud(all, tc, vc) ==
    { [typed |-> Take(st, tc),
       video |-> Take(NotUsed(sv, Ids(Take(st, tc))), vc)] :
        st \in Shuffles(TypedEligible(all)),
        sv \in Shuffles(VideoEligible(all)) }

\* typed_quotas / video_quotas of the enhanced select_session_questions,
\* iterated in dictionary order
Categories == <<"A", "B", "C", "D">>
TypedQuotas == [A |-> 2, B |-> 1, C |-> 1, D |-> 1]
VideoQuotas == [A |-> 1, B |-> 2, C |-> 1, D |-> 1]

\* mutant of QuotaDraw: every available question of a category is taken
RECURSIVE QuotaDraw_IgnoresQuota(_, _, _, _)
QuotaDraw_IgnoresQuota(pool, quotas, k, acc) ==
    IF k > Len(Categories) THEN {acc}
    ELSE LET cat       == Categories[k]
             by_cat    == SelectSeq(pool, LAMBDA q : q.category = cat)
             available == NotUsed(by_cat, acc.used)
         IN IF by_cat = <<>>
            THEN QuotaDraw_IgnoresQuota(pool, quotas, k + 1, acc)
            ELSE UNION { QuotaDraw_IgnoresQuota(pool, quotas, k + 1,
                             [selected |-> acc.selected \o chosen,
                              used     |-> acc.used \cup Ids(chosen)]) :
                         chosen \in Shuffles(available) }

\* mutant of QuotaDraw: random.sample(available, quota), without the min;
\* a sample larger than the population is a ValueError, no result at all
RECURSIVE QuotaDraw_NoMin(_, _, _, _)
QuotaDraw_NoMin(pool, quotas, k, acc) ==
    IF k > Len(Categories) THEN {acc}
    ELSE LET cat       == Categories[k]
             by_cat    == SelectSeq(pool, LAMBDA q : q.category = cat)
             available == NotUsed(by_cat, acc.used)
         IN IF by_cat = <<>> THEN QuotaDraw_NoMin(pool, quotas, k + 1, acc)
            ELSE UNION { QuotaDraw_NoMin(pool, quotas, k + 1,
                             [selected |-> acc.selected \o chosen,
                              used     |-> acc.used \cup Ids(chosen)]) :
                         chosen \in Arrangements(available, quotas[cat]) }

\* one "for category, quota in quotas.items()" loop, from category number k
\* on: every (selected, used_ids) it can end with
RECURSIVE QuotaDraw(_, _, _, _)
QuotaDraw(pool, quotas, k, acc) ==
    IF k > Len(Categories) THEN {acc}
    ELSE LET cat       == Categories[k]
             by_cat    == SelectSeq(pool, LAMBDA q : q.category = cat)
             available == NotUsed(by_cat, acc.used)
             n         == Min(quotas[cat], Len(available))
         IN IF by_cat = <<>> THEN QuotaDraw(pool, quotas, k + 1, acc)
            ELSE UNION { QuotaDraw(pool, quotas, k + 1,
                             [selected |-> acc.selected \o chosen,
                              used     |-> acc.used \cup Ids(chosen)]) :
                         chosen \in Arrangements(available, n) }

\* select_session_questions of the enhanced edition: every result
SelectEnhanced(all, tc, vc) ==
    UNION { UNION { { [typed |-> Take(st, tc),
                       video |-> Take(sv, vc)] :
                        st \in Shuffles(t.selected),
                        sv \in Shuffles(v.selected) } :
                    v \in QuotaDraw(VideoEligible(all), VideoQuotas, 1,
                                    [selected |-> <<>>, used |-> t.used]) } :
            t \in QuotaDraw(TypedEligible(all), TypedQuotas, 1,
                            [selected |-> <<>>, used |-> {}]) }

SelectSessionQuestions(a, all, tc, vc) ==
    IF a = "cloud" THEN SelectCloud(all, tc, vc)
    ELSE SelectEnhanced(all, tc, vc)

-----------------------------------------------------------------------------
(* Session store *)

\* f"{RESPONSES_DIR}/{timestamp}_{safe_name}.json", timestamp to the second
FileName(a, name, t) ==
    [timestamp |-> t \div TicksPerSecond, safe_name |-> SafeName(a, name)]

\* save_data; the fields session and asked are history (which session wrote
\* the file, and the question sets it had), not part of the file
SaveData(a, name, t, tr, vr, sess, qs) ==
    [student_name      |-> name,
     session_timestamp |-> t,
     typed_responses   |-> tr,
     video_responses   |-> vr,
     session           |-> sess,
     asked             |-> qs]
    @@ IF a = "enhanced"
       THEN [session_id |-> FileName(a, name, t), ai_feedback |-> <<>>]
       ELSE <<>>

\* save_session / save_session_response: open(filename, 'w') and json.dump
SaveSession(st, a, name, t, tr, vr, sess, qs) ==
    LET f == FileName(a, name, t)
    IN [g \in DOMAIN st \cup {f} |->
           IF g = f THEN SaveData(a, name, t, tr, vr, sess, qs) ELSE st[g]]

-----------------------------------------------------------------------------
(* JSON text *)

(* A file is a sequence of characters.  The characters of JSON's syntax and *)
(* of the strings the user typed are single characters; a dictionary key, a *)
(* question id and a feedback text are one symbol each.  The white space    *)
(* of indent=2 is left out: json.load skips it.                             *)

QUOTE     == "\""
BACKSLASH == "\\"

\* the byte of a hole: what a write past the end of a file leaves before it
NUL == "nul"

Digits == <<"0", "1", "2", "3", "4", "5", "6", "7", "8", "9">>

\* a JSON value: string, number, array, or object (its items in order)
JStr(chars) == [k |-> "str", v |-> chars]
JNum(n)     == [k |-> "num", v |-> n]
JArr(elems) == [k |-> "arr", v |-> elems]
JObj(items) == [k |-> "obj", v |-> items]
Item(key, val) == [key |-> <<key>>, val |-> val]

\* the concatenation of the sequences of a sequence
RECURSIVE Flatten(_)
Flatten(ss) == IF ss = <<>> THEN <<>> ELSE Head(ss) \o Flatten(Tail(ss))

\* the sequences of ss with sep between them
RECURSIVE Join(_, _)
Join(ss, sep) ==
    IF ss = <<>> THEN <<>>
    ELSE IF Len(ss) = 1 THEN ss[1]
    ELSE ss[1] \o sep \o Join(Tail(ss), sep)

\* mutant of EscapeChar: the quote is written as it is
EscapeChar_Raw(c) == IF c = BACKSLASH THEN <<BACKSLASH, BACKSLASH>> ELSE <<c>>

\* json's encoding of one character of a string
EscapeChar(c) ==
    IF c \in {QUOTE, BACKSLASH} THEN <<BACKSLASH, c>> ELSE <<c>>

EncodeStr(chars) ==
    <<QUOTE>> \o Flatten([i \in 1..Len(chars) |-> EscapeChar(chars[i])])
              \o <<QUOTE>>

\* json.dump(value, f): the text of a value
RECURSIVE Dumps(_)
Dumps(j) ==
    IF j.k = "str" THEN EncodeStr(j.v)
    ELSE IF j.k = "num" THEN <<Digits[j.v + 1]>>
    ELSE IF j.k = "arr"
    THEN <<"[">> \o Join([i \in 1..Len(j.v) |-> Dumps(j.v[i])], <<",">>)
                 \o <<"]">>
    ELSE <<"{">> \o Join([i \in 1..Len(j.v) |->
                             EncodeStr(j.v[i].key) \o <<":">>
                                 \o Dumps(j.v[i].val)], <<",">>)
                 \o <<"}">>

\* the result of a parse: a value and the position after it, or a failure
Parsed(val, next) == [ok |-> TRUE, val |-> val, next |-> next]
Failed == [ok |-> FALSE]

\* the characters of a string from position i, after its opening quote
RECURSIVE ScanStr(_, _, _)
ScanStr(t, i, acc) ==
    IF i > Len(t) THEN Failed
    ELSE IF t[i] = QUOTE THEN Parsed(JStr(acc), i + 1)
    ELSE IF t[i] = BACKSLASH
    THEN IF i + 1 > Len(t) \/ t[i + 1] \notin {QUOTE, BACKSLASH} THEN Failed
         ELSE ScanStr(t, i + 2, Append(acc, t[i + 1]))
    ELSE IF t[i] = NUL THEN Failed
    ELSE ScanStr(t, i + 1, Append(acc, t[i]))

RECURSIVE ParseValue(_, _)
RECURSIVE ParseElems(_, _, _)
RECURSIVE ParseItems(_, _, _)

\* the elements of an array from position i, after "[" or ","
ParseElems(t, i, acc) ==
    LET e == ParseValue(t, i)
    IN IF ~e.ok \/ e.next > Len(t) THEN Failed
       ELSE IF t[e.next] = "]"
            THEN Parsed(JArr(Append(acc, e.val)), e.next + 1)
       ELSE IF t[e.next] = ","
            THEN ParseElems(t, e.next + 1, Append(acc, e.val))
       ELSE Failed

\* the items of an object from position i, after "{" or ","
ParseItems(t, i, acc) ==
    IF i > Len(t) \/ t[i] # QUOTE THEN Failed
    ELSE LET key == ScanStr(t, i + 1, <<>>)
         IN IF ~key.ok \/ key.next > Len(t) \/ t[key.next] # ":" THEN Failed
            ELSE LET e    == ParseValue(t, key.next + 1)
                     item == [key |-> key.val.v, val |-> e.val]
                 IN IF ~e.ok \/ e.next > Len(t) THEN Failed
                    ELSE IF t[e.next] = "}"
                         THEN Parsed(JObj(Append(acc, item)), e.next + 1)
                    ELSE IF t[e.next] = ","
                         THEN ParseItems(t, e.next + 1, Append(acc, item))
                    ELSE Failed

ParseValue(t, i) ==
    IF i > Len(t) THEN Failed
    ELSE IF t[i] = QUOTE THEN ScanStr(t, i + 1, <<>>)
    ELSE IF \E n \in 1..Len(Digits) : t[i] = Digits[n]
         THEN Parsed(JNum((CHOOSE n \in 1..Len(Digits) : t[i] = Digits[n]) - 1),
                     i + 1)
    ELSE IF t[i] = "["
         THEN IF i + 1 <= Len(t) /\ t[i + 1] = "]"
              THEN Parsed(JArr(<<>>), i + 2)
              ELSE ParseElems(t, i + 1, <<>>)
    ELSE IF t[i] = "{"
         THEN IF i + 1 <= Len(t) /\ t[i + 1] = "}"
              THEN Parsed(JObj(<<>>), i + 2)
              ELSE ParseItems(t, i + 1, <<>>)
    ELSE Failed

\* json.load(f): the value of a whole text, or a failure (JSONDecodeError)
Loads(t) ==
    LET r == ParseValue(t, 1)
    IN IF r.ok /\ r.next = Len(t) + 1 THEN r ELSE Failed

-----------------------------------------------------------------------------
(* The session file *)

\* the digits of n, three wide
Digits3(n) ==
    <<Digits[((n \div 100) % 10) + 1], Digits[((n \div 10) % 10) + 1],
      Digits[(n % 10) + 1]>>

\* datetime.now().isoformat() at instant t: a fixed-width text, so that the
\* order of the texts is the order of the instants
Iso(t) == Digits3(t)

\* f"{timestamp}_{safe_name}" of a file name
FileStem(f) == Digits3(f.timestamp) \o <<"_">> \o f.safe_name

\* the name os.listdir gives for a file
ListedName(f) == FileStem(f) \o <<".json">>

\* resp_data as json.dump sees it: the keys in the order of their insertion
TypedJson(r) ==
    JObj(<<Item("question_id", JStr(<<r.question_id>>)),
           Item("question", JStr(r.question)),
           Item("response", JStr(r.response)),
           Item("word_count", JNum(r.word_count))>>
         \o (IF "timestamp" \in DOMAIN r
             THEN <<Item("timestamp", JStr(Iso(r.timestamp)))>> ELSE <<>>)
         \o (IF "ai_feedback" \in DOMAIN r
             THEN <<Item("ai_feedback", JStr(<<r.ai_feedback>>))>> ELSE <<>>))

\* the record of a video question as json.dump sees it
VideoJson(r) ==
    JObj(<<Item("question_id", JStr(<<r.question_id>>)),
           Item("question", JStr(r.question)),
           Item("notes", JStr(r.notes))>>
         \o (IF "timestamp" \in DOMAIN r
             THEN <<Item("timestamp", JStr(Iso(r.timestamp)))>> ELSE <<>>))

TypedListJson(tr) == JArr([i \in 1..Len(tr) |-> TypedJson(tr[i])])
VideoListJson(vr) == JArr([i \in 1..Len(vr) |-> VideoJson(vr[i])])

\* save_data as json.dump sees it
SessionJson(d) ==
    JObj(<<Item("student_name", JStr(d.student_name))>>
         \o (IF "session_id" \in DOMAIN d
             THEN <<Item("session_id", JStr(FileStem(d.session_id)))>>
             ELSE <<>>)
         \o <<Item("session_timestamp", JStr(Iso(d.session_timestamp))),
              Item("typed_responses", TypedListJson(d.typed_responses)),
              Item("video_responses", VideoListJson(d.video_responses))>>
         \o (IF "ai_feedback" \in DOMAIN d
             THEN <<Item("ai_feedback", JArr(<<>>))>> ELSE <<>>))

\* dict.get(key, default) of a loaded object: the last item of that key
Get(obj, key, default) ==
    LET at == {i \in 1..Len(obj.v) : obj.v[i].key = <<key>>}
    IN IF at = {} THEN default
       ELSE obj.v[CHOOSE i \in at : \A j \in at : j <= i].val

\* obj[key] = val of a loaded object
Put(obj, key, val) ==
    IF \E i \in 1..Len(obj.v) : obj.v[i].key = <<key>>
    THEN JObj([i \in 1..Len(obj.v) |->
                 IF obj.v[i].key = <<key>> THEN Item(key, val) ELSE obj.v[i]])
    ELSE JObj(Append(obj.v, Item(key, val)))

-----------------------------------------------------------------------------
(* The questions file *)

\* a value that is not there: the default of a lookup that must not succeed
Absent == [k |-> "none", v |-> <<>>]

\* a question of questions.json, and the dict json.load makes of it
QuestionJson(q) ==
    JObj(<<Item("id", JStr(<<q.id>>)),
           Item("category", JStr(<<q.category>>)),
           Item("question", JStr(q.question)),
           Item("type", JStr(<<q.type>>))>>)

QuestionOf(j) ==
    [id       |-> Get(j, "id", Absent).v[1],
     category |-> Get(j, "category", Absent).v[1],
     type     |-> Get(j, "type", Absent).v[1],
     question |-> Get(j, "question", Absent).v]

\* what QUESTIONS_FILE holds: {"questions": [...]}, the first half of that
\* text, or an object without the key 'questions'
FileText(file) ==
    LET whole == Dumps(JObj(<<Item("questions",
                     JArr([i \in 1..Len(FileQuestions) |->
                              QuestionJson(FileQuestions[i])]))>>))
    IN IF file = "present" THEN whole
       ELSE IF file = "malformed" THEN SubSeq(whole, 1, Len(whole) \div 2)
       ELSE Dumps(JObj(<<Item("version", JNum(1))>>))

\* whether load_questions() raises: "except FileNotFoundError" is its only
\* handler, so the JSONDecodeError of json.load and the KeyError of
\* data['questions'] leave the function
LoadQuestionsRaises(file) ==
    /\ file # "missing"
    /\ LET data == Loads(FileText(file))
       IN \/ ~data.ok
          \/ data.val.k # "obj"
          \/ Get(data.val, "questions", Absent) = Absent

\* what load_questions() returns when it returns: data['questions'], or on
\* FileNotFoundError the defaults (cloud) or [] (enhanced)
LoadQuestions(a, file) ==
    IF file = "missing"
    THEN IF a = "cloud" THEN DefaultQuestions ELSE <<>>
    ELSE LET qs == Get(Loads(FileText(file)).val, "questions", Absent).v
         IN [i \in 1..Len(qs) |-> QuestionOf(qs[i])]

-----------------------------------------------------------------------------
(* Timer *)

\* int(x) of a duration given in ticks: whole seconds, truncated towards 0
IntSeconds(d) ==
    IF d >= 0 THEN d \div TicksPerSecond ELSE 0 - ((0 - d) \div TicksPerSecond)

\* mutant of Remaining: the max(0, ...) is forgotten
Remaining_NoFloor(end, t) == IntSeconds(end - t)

\* remaining = max(0, int(st.session_state[f"timer_end_{idx}"] - time.time()))
Remaining(end, t) == Max(0, IntSeconds(end - t))

-----------------------------------------------------------------------------
(* Script runs *)

\* no call of load_all_sessions was made; nothing was exported.  Of a call:
\* todo, the files still to read; sessions, the list; and as history
\* skipped, the files the except branch passed over, and before, the calls
\* of save_session that had returned when it began
NoLoad   == [pc |-> "idle"]
NoExport == [selected |-> <<>>, sort |-> "none", ok |-> TRUE, rows |-> <<>>]

\* the value of a key that "del st.session_state[key]" removed
NoQuestions == [typed |-> <<>>, video |-> <<>>]
NoTimers    == <<>>
Event(op, input) == [op |-> op, input |-> input, at |-> phase]
NoEvent(op) == Event(op, <<>>)

\* st.progress(idx / len(questions)) raises ZeroDivisionError, before
\* anything else of the page, when the phase's question list is empty
PageRaises(page, qs) ==
    \/ page = "typed" /\ Len(qs.typed) = 0
    \/ page = "video" /\ Len(qs.video) = 0

\* the try block of show_completion: save_session raises (the banner is
\* st.warning, the store is as before) or writes the file (st.success)
SaveOutcomes == {"saved", "warning"}

ShowCompletionSave(st, outcome, name, tr, vr, qs) ==
    IF outcome = "saved"
    THEN SaveSession(st, app, name, now, tr, vr, session, qs)
    ELSE st

\* mutant of TimerInit: the countdown starts when the question is displayed
TimerInit_AutoStart(ts, te, idx, t) ==
    IF idx \notin DOMAIN ts
    THEN [started |-> ts @@ (idx :> TRUE), end |-> te @@ (idx :> t + TimerTicks)]
    ELSE [started |-> ts, end |-> te]

\* "if timer_key not in st.session_state: st.session_state[timer_key] = False":
\* the timer keys after the page of question idx was displayed at instant t
TimerInit(ts, te, idx, t) ==
    IF idx \notin DOMAIN ts
    THEN [started |-> ts @@ (idx :> FALSE), end |-> te]
    ELSE [started |-> ts, end |-> te]

\* mutant of Main: a failed save sends the session back to the video page
Main_RevertsOnFailure(mode, ph, name, key, idx, qs, tr, vr, ts, te, st) ==
    LET ph1   == IF mode = "student" /\ ph = "none" THEN "welcome" ELSE ph
        page  == IF mode = "teacher" THEN "dashboard" ELSE ph1
        timer == app = "cloud" /\ page = "video" /\ ~PageRaises(page, qs)
        init  == IF timer THEN TimerInit(ts, te, idx, now)
                 ELSE [started |-> ts, end |-> te]
    IN /\ app_mode' = mode
       /\ student_name' = name
       /\ api_key' = key
       /\ q_index' = idx
       /\ questions' = qs
       /\ typed_responses' = tr
       /\ video_responses' = vr
       /\ timer_started' = init.started
       /\ timer_end' = init.end
       /\ display' = IF ~timer THEN <<>>
                     ELSE IF init.started[idx]
                     THEN <<Remaining(init.end[idx], now)>>
                     ELSE <<TimerSeconds>>
       /\ IF page = "complete"
          THEN \E outcome \in SaveOutcomes :
                  /\ store' = ShowCompletionSave(st, outcome, name, tr, vr, qs)
                  /\ banner' = outcome
                  /\ phase' = IF outcome = "warning" THEN "video" ELSE ph1
          ELSE store' = st /\ banner' = "none" /\ phase' = ph1

\* One run of main() on the session state the event handler left: the
\* route, and what the page of the phase does to the state.
Main(mode, ph, name, key, idx, qs, tr, vr, ts, te, st) ==
    LET ph1   == IF mode = "student" /\ ph = "none" THEN "welcome" ELSE ph
        page  == IF mode = "teacher" THEN "dashboard" ELSE ph1
        timer == app = "cloud" /\ page = "video" /\ ~PageRaises(page, qs)
        init  == IF timer THEN TimerInit(ts, te, idx, now)
                 ELSE [started |-> ts, end |-> te]
        ts1   == init.started
        te1   == init.end
    IN /\ app_mode' = mode
       /\ phase' = ph1
       /\ student_name' = name
       /\ api_key' = key
       /\ q_index' = idx
       /\ questions' = qs
       /\ typed_responses' = tr
       /\ video_responses' = vr
       /\ timer_started' = ts1
       /\ timer_end' = te1
       /\ display' = IF ~timer THEN <<>>
                     ELSE IF ts1[idx] THEN <<Remaining(te1[idx], now)>>
                     ELSE <<TimerSeconds>>
       /\ IF page = "complete"
          THEN \E outcome \in SaveOutcomes :
                  /\ store' = ShowCompletionSave(st, outcome, name, tr, vr, qs)
                  /\ banner' = outcome
          ELSE store' = st /\ banner' = "none"

\* mutant of Rerun: the run starts the list of questions from its beginning
Rerun_LosesCursor(mode) ==
    Main(mode, phase, student_name, api_key, 0, questions,
         typed_responses, video_responses, timer_started, timer_end, store)

\* the same run on the state as it is
Rerun(mode) ==
    Main(mode, phase, student_name, api_key, q_index, questions,
         typed_responses, video_responses, timer_started, timer_end, store)

\* mutant of ResetRun: the keys of the two response lists are not deleted
ResetRun_KeepsResponses(st) ==
    Main(app_mode, "none", <<>>, "none", 0, NoQuestions, typed_responses,
         video_responses, NoTimers, NoTimers, st)

\* "for key in list(st.session_state.keys()): del st.session_state[key]",
\* then st.rerun()
ResetRun(st) ==
    Main(app_mode, "none", <<>>, "none", 0, NoQuestions, <<>>, <<>>,
         NoTimers, NoTimers, st)

\* which page the last run rendered, and whether it got to its widgets; a
\* run that waits in get_ai_feedback has not returned, and the events of
\* the browser wait for it
Rendered(page) ==
    /\ call = "idle"
    /\ app_mode = "student"
    /\ phase = page
    /\ ~PageRaises(page, questions)

-----------------------------------------------------------------------------
(* The recorder: the script of video_recorder_component, which runs in the  *)
(* browser.  The record holds its variables (stream, mediaRecorder as the   *)
(* state of the MediaRecorder or "none", timeLeft, timerInterval), the      *)
(* elements it sets (timer, the text of #timer; startBtn and stopBtn, TRUE  *)
(* when enabled; playback, whether #playback-container is displayed;        *)
(* videoData, whether the hidden input has a value), what the browser       *)
(* keeps (intervals, the handles of the active setInterval timers; camera,  *)
(* the request of getUserMedia; stopping and loading, the events onstop and *)
(* onloadend that are due) and as history recorded, the ticks the last      *)
(* recording lasted, and posted, whether a recording was handed over.       *)

\* video_recorder_component(question['question'], time_limit=60)
RecorderTimeLimit == 60

\* the page of the component is loaded: "let timeLeft = {time_limit}", the
\* text of #timer, stopBtn disabled, and initCamera() is called
PageLoaded ==
    [camera        |-> "asking",
     stream        |-> FALSE,
     mediaRecorder |-> "none",
     timeLeft      |-> RecorderTimeLimit,
     timerInterval |-> 0,
     intervals     |-> {},
     timer         |-> RecorderTimeLimit,
     startBtn      |-> TRUE,
     stopBtn       |-> FALSE,
     playback      |-> FALSE,
     videoData     |-> FALSE,
     stopping      |-> FALSE,
     loading       |-> FALSE,
     recorded      |-> 0,
     posted        |-> FALSE]

\* initCamera() after getUserMedia is settled
initCamera(r, granted) ==
    [r EXCEPT !.camera = IF granted THEN "ready" ELSE "denied",
              !.stream = granted]

\* the handle setInterval returns: one that no timer has
NewHandle(r) ==
    CHOOSE h \in 1..(Cardinality(r.intervals) + 2) :
        h \notin r.intervals \cup {r.timerInterval}

\* mutant of startRecording: the Start button stays enabled
startRecording_KeepsButton(r) ==
    IF ~r.stream THEN [r EXCEPT !.timeLeft = RecorderTimeLimit]
    ELSE [r EXCEPT !.timeLeft = RecorderTimeLimit,
                   !.mediaRecorder = "recording",
                   !.stopBtn = TRUE,
                   !.playback = FALSE,
                   !.timerInterval = NewHandle(r),
                   !.intervals = @ \cup {NewHandle(r)},
                   !.recorded = 0]

\* startRecording(): without a stream "new MediaRecorder(stream, options)"
\* raises after timeLeft was set; else the recorder is started, the buttons
\* are switched, the playback is hidden and the interval is set
startRecording(r) ==
    IF ~r.stream THEN [r EXCEPT !.timeLeft = RecorderTimeLimit]
    ELSE [r EXCEPT !.timeLeft = RecorderTimeLimit,
                   !.mediaRecorder = "recording",
                   !.startBtn = FALSE,
                   !.stopBtn = TRUE,
                   !.playback = FALSE,
                   !.timerInterval = NewHandle(r),
                   !.intervals = @ \cup {NewHandle(r)},
                   !.recorded = 0]

\* stopRecording(): mediaRecorder.stop() unless inactive (onstop is due),
\* clearInterval(timerInterval), and the buttons are switched back
stopRecording(r) ==
    [r EXCEPT !.mediaRecorder = IF @ = "recording" THEN "inactive" ELSE @,
              !.stopping = @ \/ r.mediaRecorder = "recording",
              !.intervals = @ \ {r.timerInterval},
              !.startBtn = TRUE,
              !.stopBtn = FALSE]

\* the callback of setInterval: "timeLeft--", the text of #timer, and
\* stopRecording() when timeLeft <= 0
IntervalCallback(r) ==
    LET r1 == [r EXCEPT !.timeLeft = @ - 1,
                        !.timer = r.timeLeft - 1,
                        !.recorded = IF r.mediaRecorder = "recording"
                                     THEN @ + 1 ELSE @]
    IN IF r1.timeLeft <= 0 THEN stopRecording(r1) ELSE r1

\* mediaRecorder.onstop: the playback is displayed and the blob is read
onstop(r) ==
    [r EXCEPT !.stopping = FALSE, !.playback = TRUE, !.loading = TRUE]

\* reader.onloadend: the hidden input gets the data
onloadend(r) == [r EXCEPT !.loading = FALSE, !.videoData = TRUE]

\* retryRecording(): the playback is hidden, #timer shows the limit again
\* and the hidden input is emptied
retryRecording(r) ==
    [r EXCEPT !.playback = FALSE,
              !.timer = RecorderTimeLimit,
              !.videoData = FALSE]

\* submitRecording(): postMessage when the hidden input has a value
submitRecording(r) == [r EXCEPT !.posted = @ \/ r.videoData]

-----------------------------------------------------------------------------
(* Inputs *)

Names   == { <<>>, <<" ">>, <<"A">> }
Keys    == { "none", "key" }
Files   == { "missing", "present", "malformed", "no_questions" }
Answers == { <<>>, <<" ">>, <<" ", "a">> }
Notes   == { <<>>, <<"n">> }

\* what get_ai_feedback returns: the model's text, or the text of one of
\* its two except branches
FeedbackOutcomes == { "feedback", "install", "failed" }

-----------------------------------------------------------------------------
(* Events *)

Init ==
    /\ app \in {"cloud", "enhanced"}
    /\ app_mode = "student"
    /\ phase = "welcome"
    /\ student_name = <<>>
    /\ api_key = "none"
    /\ q_index = 0
    /\ questions = NoQuestions
    /\ typed_responses = <<>>
    /\ video_responses = <<>>
    /\ timer_started = NoTimers
    /\ timer_end = NoTimers
    /\ display = <<>>
    /\ banner = "none"
    /\ now = 0
    /\ store = <<>>
    /\ session = 0
    /\ feedback_calls = 0
    /\ last = [op |-> "Init", input |-> <<>>, at |-> "none"]
    /\ catalog = <<>>
    /\ typed_count = DefaultTypedCount
    /\ video_count = DefaultVideoCount
    /\ disk = <<>>
    /\ writers = <<>>
    /\ loader = NoLoad
    /\ csv = NoExport
    /\ call = "idle"
    /\ session_id = <<>>
    /\ recorder = PageLoaded

\* time passes
Tick ==
    /\ \E t \in Instants : t > now /\ now' = t
    /\ last' = NoEvent("Tick")
    /\ UNCHANGED <<app, app_mode, phase, student_name, api_key, q_index,
                   questions, typed_responses, video_responses, timer_started,
                   timer_end, display, banner, store, session, feedback_calls,
                   selvars, iovars, call, session_id, recorder>>

\* the sidebar radio "Mode:" is changed
SwitchMode ==
    /\ call = "idle"
    /\ Rerun(IF app_mode = "student" THEN "teacher" ELSE "student")
    /\ last' = NoEvent("SwitchMode")
    /\ UNCHANGED <<app, now, session, feedback_calls, selvars, iovars, call,
                   session_id, recorder>>

\* st.session_state.session_id = datetime.now().strftime("%Y%m%d_%H%M%S")
SessionId(t) == <<t \div TicksPerSecond>>

\* st.button("Start Practice", disabled=not name)
StartEnabled(name) == Truthy(name)

\* The handler sets the name, the key, the phase, the cursor and the empty
\* response lists, then calls select_session_questions(load_questions()) and
\* st.rerun().  When load_questions raises, the run ends there: the keys set
\* before it stay, the questions key is never set, and no rerun follows.
StartPractice(name, key, file) ==
    /\ Rendered("welcome")
    /\ session < MaxSessions
    /\ last' = Event("StartPractice", name) @@ [file |-> file]
    /\ UNCHANGED <<app, now, feedback_calls, selvars, iovars, call,
                   recorder>>
    /\ IF StartEnabled(name)
       THEN /\ IF LoadQuestionsRaises(file)
               THEN Main(app_mode, "typed", name, key, 0, NoQuestions, <<>>,
                         <<>>, NoTimers, NoTimers, store)
               ELSE \E sel \in SelectSessionQuestions(app,
                                  LoadQuestions(app, file),
                                  typed_count, video_count) :
                       Main(app_mode, "typed", name, key, 0, sel, <<>>, <<>>,
                            NoTimers, NoTimers, store)
            /\ session' = session + 1
            /\ session_id' = SessionId(now)
       ELSE UNCHANGED <<app_mode, phase, student_name, api_key, q_index,
                        questions, typed_responses, video_responses,
                        timer_started, timer_end, display, banner, store,
                        session, session_id>>

\* mutant of SubmitEnabled: "not response" in place of "not response.strip()"
SubmitEnabled_NoStrip(response) == Truthy(response)

\* st.button(btn_label, disabled=not response.strip()) and, in app_cloud,
\* "if finish_clicked and response.strip()"
SubmitEnabled(response) == Truthy(Strip(response))

\* mutant of TypedRecord: the feedback is requested and stored whether or
\* not a key is configured
TypedRecord_AlwaysFeedback(q, response, key, fb) ==
    [question_id |-> q.id,
     question    |-> q.question,
     response    |-> response,
     word_count  |-> WordCount(response),
     ai_feedback |-> fb]
    @@ (IF app = "enhanced" THEN [timestamp |-> now] ELSE <<>>)

\* mutant of TypedRecord: the text of a failed feedback call is not stored
TypedRecord_DropsFailure(q, response, key, fb) ==
    [question_id |-> q.id,
     question    |-> q.question,
     response    |-> response,
     word_count  |-> WordCount(response)]
    @@ (IF app = "enhanced" THEN [timestamp |-> now] ELSE <<>>)
    @@ (IF key = "key" /\ fb = "feedback" THEN [ai_feedback |-> fb] ELSE <<>>)

\* resp_data of show_typed_questions
TypedRecord(q, response, key, fb) ==
    [question_id |-> q.id,
     question    |-> q.question,
     response    |-> response,
     word_count  |-> WordCount(response)]
    @@ (IF app = "enhanced" THEN [timestamp |-> now] ELSE <<>>)
    @@ (IF key = "key" THEN [ai_feedback |-> fb] ELSE <<>>)

\* mutant of AfterTyped: the last answer goes straight to the video page
AfterTyped_SkipsIntro(idx, n) ==
    IF idx < n - 1 THEN [phase |-> "typed", q_index |-> idx + 1]
    ELSE [phase |-> "video", q_index |-> 0]

\* "if idx < len(questions) - 1: q_index += 1
\*  else: phase = 'video_intro'; q_index = 0"
AfterTyped(idx, n) ==
    IF idx < n - 1 THEN [phase |-> "typed", q_index |-> idx + 1]
    ELSE [phase |-> "video_intro", q_index |-> 0]

\* the Finish / Next Question button of the typed page is clicked with
\* `response` in the text area
SubmitTyped(response, fb) ==
    /\ Rendered("typed")
    /\ last' = Event("SubmitTyped", response)
    /\ UNCHANGED <<app, now, session, selvars, iovars, call, session_id, recorder>>
    /\ IF SubmitEnabled(response)
       THEN LET q  == questions.typed[q_index + 1]
                to == AfterTyped(q_index, Len(questions.typed))
            IN /\ feedback_calls' =
                      IF api_key = "key" THEN feedback_calls + 1
                      ELSE feedback_calls
               /\ Main(app_mode, to.phase, student_name, api_key, to.q_index,
                       questions,
                       Append(typed_responses,
                              TypedRecord(q, response, api_key, fb)),
                       video_responses, timer_started, timer_end, store)
       ELSE UNCHANGED <<app_mode, phase, student_name, api_key, q_index,
                        questions, typed_responses, video_responses,
                        timer_started, timer_end, display, banner, store,
                        feedback_calls>>

\* the same click when client.messages.create neither returns nor raises:
\* get_ai_feedback passes no timeout, and the run stays in the call, inside
\* st.spinner, before typed_responses.append
SubmitTypedBlocks(response) ==
    /\ Rendered("typed")
    /\ api_key = "key"
    /\ SubmitEnabled(response)
    /\ call' = "pending"
    /\ feedback_calls' = feedback_calls + 1
    /\ last' = Event("SubmitTypedBlocks", response)
    /\ UNCHANGED <<app, app_mode, phase, student_name, api_key, q_index,
                   questions, typed_responses, video_responses, timer_started,
                   timer_end, display, banner, now, store, session, selvars,
                   iovars, session_id, recorder>>

\* mutant of BeginVideo: the video questions start from the second one
BeginVideo_SkipsFirst ==
    /\ Rendered("video_intro")
    /\ last' = NoEvent("BeginVideo")
    /\ UNCHANGED <<app, now, session, feedback_calls, selvars, iovars, call,
                   session_id, recorder>>
    /\ Main(app_mode, "video", student_name, api_key, q_index + 1, questions,
            typed_responses, video_responses, timer_started, timer_end, store)

\* st.button("Begin Video Practice") of show_video_intro
BeginVideo ==
    /\ Rendered("video_intro")
    /\ last' = NoEvent("BeginVideo")
    /\ UNCHANGED <<app, now, session, feedback_calls, selvars, iovars, call,
                   session_id, recorder>>
    /\ Main(app_mode, "video", student_name, api_key, q_index, questions,
            typed_responses, video_responses, timer_started, timer_end, store)

\* mutant of StartTimer: the button is rendered whatever the timer's state
StartTimer_Again ==
    /\ app = "cloud"
    /\ Rendered("video")
    /\ last' = NoEvent("StartTimer")
    /\ UNCHANGED <<app, now, session, feedback_calls, selvars, iovars, call,
                   session_id, recorder>>
    /\ Main(app_mode, phase, student_name, api_key, q_index, questions,
            typed_responses, video_responses,
            [timer_started EXCEPT ![q_index] = TRUE],
            (q_index :> now + TimerTicks) @@ timer_end,
            store)

\* st.button("Start 60-Second Timer"), rendered while the timer of the
\* question is not started (app_cloud only)
StartTimer ==
    /\ app = "cloud"
    /\ Rendered("video")
    /\ ~timer_started[q_index]
    /\ last' = NoEvent("StartTimer")
    /\ UNCHANGED <<app, now, session, feedback_calls, selvars, iovars, call,
                   session_id, recorder>>
    /\ Main(app_mode, phase, student_name, api_key, q_index, questions,
            typed_responses, video_responses,
            [timer_started EXCEPT ![q_index] = TRUE],
            (q_index :> now + TimerTicks) @@ timer_end,
            store)

\* mutant of Poll: a run that finds the countdown expired moves on to the
\* next question by itself
Poll_AdvancesOnExpiry ==
    /\ app = "cloud"
    /\ Rendered("video")
    /\ timer_started[q_index]
    /\ last' = NoEvent("Poll")
    /\ UNCHANGED <<app, now, session, feedback_calls, selvars, iovars, call,
                   session_id, recorder>>
    /\ IF Remaining(timer_end[q_index], now) = 0
          /\ q_index < Len(questions.video) - 1
       THEN Main(app_mode, phase, student_name, api_key, q_index + 1,
                 questions, typed_responses, video_responses, timer_started,
                 timer_end, store)
       ELSE Rerun(app_mode)

\* a run of the video page while the timer of the question is started: the
\* "time.sleep(1); st.rerun()" refresh, or a run another widget caused
Poll ==
    /\ app = "cloud"
    /\ Rendered("video")
    /\ timer_started[q_index]
    /\ Rerun(app_mode)
    /\ last' = NoEvent("Poll")
    /\ UNCHANGED <<app, now, session, feedback_calls, selvars, iovars, call,
                   session_id, recorder>>

\* Whether a run of show_video_questions gets to the notes and the Next
\* button: in app_cloud a started timer with remaining > 0 ends the run in
\* "time.sleep(1); st.rerun()" before them.
ReachesNext(ts, te, idx, t) ==
    ~(app = "cloud" /\ ts[idx] /\ Remaining(te[idx], t) > 0)

\* mutant of VideoRecord: the record is labelled with the category
VideoRecord_ByCategory(q, notes) ==
    [question_id |-> q.category, question |-> q.question, notes |-> notes]
    @@ (IF app = "enhanced" THEN [timestamp |-> now] ELSE <<>>)

\* the record appended for a video question
VideoRecord(q, notes) ==
    [question_id |-> q.id, question |-> q.question, notes |-> notes]
    @@ (IF app = "enhanced" THEN [timestamp |-> now] ELSE <<>>)

\* mutant of AfterVideo: the test is "idx < len(questions)"
AfterVideo_OffByOne(idx, n) ==
    IF idx < n THEN [phase |-> "video", q_index |-> idx + 1]
    ELSE [phase |-> "complete", q_index |-> idx]

\* "if idx < len(questions) - 1: q_index += 1 else: phase = 'complete'"
AfterVideo(idx, n) ==
    IF idx < n - 1 THEN [phase |-> "video", q_index |-> idx + 1]
    ELSE [phase |-> "complete", q_index |-> idx]

\* mutant of SubmitNotes: the record is put in front of the list
SubmitNotes_Prepends(notes) ==
    /\ Rendered("video")
    /\ last' = Event("SubmitNotes", notes)
    /\ UNCHANGED <<app, now, session, feedback_calls, selvars, iovars, call,
                   session_id, recorder>>
    /\ IF ReachesNext(timer_started, timer_end, q_index, now)
       THEN LET q  == questions.video[q_index + 1]
                to == AfterVideo(q_index, Len(questions.video))
            IN Main(app_mode, to.phase, student_name, api_key, to.q_index,
                    questions, typed_responses,
                    <<VideoRecord(q, notes)>> \o video_responses,
                    timer_started, timer_end, store)
       ELSE Rerun(app_mode)

\* mutant of SubmitNotes: feedback is asked on the notes, as on an answer
SubmitNotes_AsksFeedback(notes) ==
    /\ Rendered("video")
    /\ last' = Event("SubmitNotes", notes)
    /\ UNCHANGED <<app, now, session, selvars, iovars, call, session_id, recorder>>
    /\ IF ReachesNext(timer_started, timer_end, q_index, now)
       THEN LET q  == questions.video[q_index + 1]
                to == AfterVideo(q_index, Len(questions.video))
            IN /\ feedback_calls' =
                      IF api_key = "key" THEN feedback_calls + 1
                      ELSE feedback_calls
               /\ \E fb \in FeedbackOutcomes :
                     Main(app_mode, to.phase, student_name, api_key,
                          to.q_index, questions, typed_responses,
                          Append(video_responses,
                                 VideoRecord(q, notes)
                                 @@ (IF api_key = "key"
                                     THEN [ai_feedback |-> fb] ELSE <<>>)),
                          timer_started, timer_end, store)
       ELSE Rerun(app_mode) /\ UNCHANGED feedback_calls

\* the Next Question / Finish Practice button of the video page is clicked
\* with `notes` in the self-reflection text area
SubmitNotes(notes) ==
    /\ Rendered("video")
    /\ last' = Event("SubmitNotes", notes)
    /\ UNCHANGED <<app, now, session, feedback_calls, selvars, iovars, call,
                   session_id, recorder>>
    /\ IF ReachesNext(timer_started, timer_end, q_index, now)
       THEN LET q  == questions.video[q_index + 1]
                to == AfterVideo(q_index, Len(questions.video))
            IN Main(app_mode, to.phase, student_name, api_key, to.q_index,
                    questions, typed_responses,
                    Append(video_responses, VideoRecord(q, notes)),
                    timer_started, timer_end, store)
       ELSE Rerun(app_mode)

\* Practice Again / Start Over (Return to Start) of the completion page:
\* the run of the click calls save_session first, on its way to the button,
\* then deletes the keys and reruns
LeaveCompletion(op) ==
    /\ Rendered("complete")
    /\ last' = NoEvent(op)
    /\ UNCHANGED <<app, now, session, feedback_calls, selvars, iovars, call,
                   recorder>>
    /\ session_id' = <<>>
    /\ \E outcome \in SaveOutcomes :
          ResetRun(ShowCompletionSave(store, outcome, student_name,
                       typed_responses, video_responses, questions))

PracticeAgain == LeaveCompletion("PracticeAgain")

StartOver == LeaveCompletion("StartOver")

\* mutant of ExitSession: the responses collected so far are saved on exit
ExitSession_SavesFirst ==
    /\ call = "idle"
    /\ phase \notin {"welcome", "none"}
    /\ last' = NoEvent("ExitSession")
    /\ UNCHANGED <<app, now, session, feedback_calls, selvars, iovars, call,
                   recorder>>
    /\ session_id' = <<>>
    /\ ResetRun(SaveSession(store, app, student_name, now, typed_responses,
                            video_responses, session, questions))

\* the sidebar's Exit Session button, rendered when the phase is set and is
\* not 'welcome'
ExitSession ==
    /\ call = "idle"
    /\ phase \notin {"welcome", "none"}
    /\ last' = NoEvent("ExitSession")
    /\ UNCHANGED <<app, now, session, feedback_calls, selvars, iovars, call,
                   recorder>>
    /\ session_id' = <<>>
    /\ ResetRun(store)

Next ==
    \/ Tick
    \/ SwitchMode
    \/ \E name \in Names, key \in Keys, file \in Files :
          StartPractice(name, key, file)
    \/ \E response \in Answers, fb \in FeedbackOutcomes :
          SubmitTyped(response, fb)
    \/ \E response \in Answers : SubmitTypedBlocks(response)
    \/ BeginVideo
    \/ StartTimer
    \/ Poll
    \/ \E notes \in Notes : SubmitNotes(notes)
    \/ PracticeAgain
    \/ StartOver
    \/ ExitSession

Spec == Init /\ [][Next]_vars

-----------------------------------------------------------------------------
(* The selection on its own: select_session_questions applied to every     *)
(* small catalog and every pair of counts                                  *)

\* longest catalog, and largest typed_count / video_count, that are tried
MaxCatalog == 2
MaxCount == 2

\* catalog entries: ids may repeat, as nothing in the code forbids it
SelQuestions ==
    { Q(id, cat, type) : id \in {"q1", "q2"}, cat \in {"A", "B"},
                         type \in {"typed", "video", "both"} }

Catalogs == UNION { [1..n -> SelQuestions] : n \in 0..MaxCatalog }

InitSel ==
    /\ app \in {"cloud", "enhanced"}
    /\ catalog \in Catalogs
    /\ typed_count \in 0..MaxCount
    /\ video_count \in 0..MaxCount
    /\ app_mode = "student"
    /\ phase = "welcome"
    /\ student_name = <<>>
    /\ api_key = "none"
    /\ q_index = 0
    /\ questions = NoQuestions
    /\ typed_responses = <<>>
    /\ video_responses = <<>>
    /\ timer_started = NoTimers
    /\ timer_end = NoTimers
    /\ display = <<>>
    /\ banner = "none"
    /\ now = 0
    /\ store = <<>>
    /\ session = 0
    /\ feedback_calls = 0
    /\ last = [op |-> "Init", input |-> <<>>, at |-> "none"]
    /\ disk = <<>>
    /\ writers = <<>>
    /\ loader = NoLoad
    /\ csv = NoExport
    /\ call = "idle"
    /\ session_id = <<>>
    /\ recorder = PageLoaded

\* one call of select_session_questions(catalog, typed_count, video_count)
SelectQuestions ==
    /\ questions' \in
           SelectSessionQuestions(app, catalog, typed_count, video_count)
    /\ last' = NoEvent("SelectQuestions")
    /\ UNCHANGED <<app, app_mode, phase, student_name, api_key, q_index,
                   typed_responses, video_responses, timer_started, timer_end,
                   display, banner, now, store, session, feedback_calls,
                   selvars, iovars, call, session_id, recorder>>

NextSel == SelectQuestions

SpecSel == InitSel /\ [][NextSel]_vars

-----------------------------------------------------------------------------
(* The selection with counts of at least the sums of the quotas: catalogs   *)
(* of questions with ids of their own (the id is unique in a catalog), of   *)
(* two categories with a quota and one without, and one catalog with more   *)
(* typed questions than typed_count                                         *)

\* longest catalog that is tried, and how far the counts exceed the quotas
MaxQuotaCatalog == 3
MaxExtra == 1

RECURSIVE QuotaSum(_, _)
QuotaSum(quotas, k) ==
    IF k > Len(Categories) THEN 0
    ELSE quotas[Categories[k]] + QuotaSum(quotas, k + 1)

QuotaIds == <<"q1", "q2", "q3", "q4">>

QuotaCatalogs ==
    UNION { { [i \in 1..n |-> Q(QuotaIds[i], f[i][1], f[i][2])] :
                f \in [1..n -> {"A", "B", "E"} \X {"typed", "video", "both"}] } :
            n \in 0..MaxQuotaCatalog }

\* six typed questions, five of one category
WideCatalog ==
    << Q("a1", "A", "typed"), Q("a2", "A", "typed"), Q("a3", "A", "typed"),
       Q("a4", "A", "typed"), Q("a5", "A", "typed"), Q("b1", "B", "typed") >>

InitQuota ==
    /\ app \in {"cloud", "enhanced"}
    /\ catalog \in QuotaCatalogs \cup {WideCatalog}
    /\ typed_count \in QuotaSum(TypedQuotas, 1)..QuotaSum(TypedQuotas, 1) + MaxExtra
    /\ video_count \in QuotaSum(VideoQuotas, 1)..QuotaSum(VideoQuotas, 1) + MaxExtra
    /\ app_mode = "student"
    /\ phase = "welcome"
    /\ student_name = <<>>
    /\ api_key = "none"
    /\ q_index = 0
    /\ questions = NoQuestions
    /\ typed_responses = <<>>
    /\ video_responses = <<>>
    /\ timer_started = NoTimers
    /\ timer_end = NoTimers
    /\ display = <<>>
    /\ banner = "none"
    /\ now = 0
    /\ store = <<>>
    /\ session = 0
    /\ feedback_calls = 0
    /\ last = [op |-> "Init", input |-> <<>>, at |-> "none"]
    /\ disk = <<>>
    /\ writers = <<>>
    /\ loader = NoLoad
    /\ csv = NoExport
    /\ call = "idle"
    /\ session_id = <<>>
    /\ recorder = PageLoaded

\* the call that session starts with: one call for each catalog and counts
NextQuota == last.op = "Init" /\ SelectQuestions

SpecQuota == InitQuota /\ [][NextQuota]_vars

-----------------------------------------------------------------------------
(* Loading and exporting *)

\* the characters of the texts that are compared, in the order of their codes
Alphabet ==
    <<" ", QUOTE, "0", "1", "2", "3", "4", "5", "6", "7", "8", "9", "A", "S",
      BACKSLASH, "_", "a", "d", "e", "l", "n", "s", "t", "u">>

CharCode(c) == CHOOSE i \in 1..Len(Alphabet) : Alphabet[i] = c

\* a < b of two str
RECURSIVE StrLess(_, _)
StrLess(a, b) ==
    IF b = <<>> THEN FALSE
    ELSE IF a = <<>> THEN TRUE
    ELSE IF Head(a) = Head(b) THEN StrLess(Tail(a), Tail(b))
    ELSE CharCode(Head(a)) < CharCode(Head(b))

\* x < y is defined for two str and for two numbers (a list or a dict as a
\* sort key is not among the files that are tried); it raises TypeError for
\* a str and a number
Comparable(x, y) == x.k = y.k /\ x.k \in {"str", "num"}
Less(x, y) == IF x.k = "num" THEN x.v < y.v ELSE StrLess(x.v, y.v)

\* x.get(key, '')
SortKey(x, key) == Get(x, key, JStr(<<>>))

\* list.sort(key=lambda x: x.get(key, ''), reverse=desc) raises
SortRaises(ss, key) ==
    \E i, j \in 1..Len(ss) :
        i # j /\ ~Comparable(SortKey(ss[i], key), SortKey(ss[j], key))

\* mutant of Sorted: the sort is left out
Sorted_Unsorted(ss, key, desc) == ss

\* the list after list.sort(key=lambda x: x.get(key, ''), reverse=desc): the
\* sort is stable, also when reversed
RECURSIVE Sorted(_, _, _)
Sorted(ss, key, desc) ==
    IF ss = <<>> THEN <<>>
    ELSE LET init == Sorted(SubSeq(ss, 1, Len(ss) - 1), key, desc)
             x    == ss[Len(ss)]
             Before(a, b) ==
                 IF desc THEN Less(SortKey(b, key), SortKey(a, key))
                 ELSE Less(SortKey(a, key), SortKey(b, key))
             at   == {i \in 1..Len(init) : Before(x, init[i])}
             k    == IF at = {} THEN Len(init) + 1
                     ELSE CHOOSE i \in at : \A j \in at : i <= j
         IN SubSeq(init, 1, k - 1) \o <<x>> \o SubSeq(init, k, Len(init))

\* mutant of ReadSession: a file that cannot be read is listed as an empty
\* session
ReadSession_KeepsBad(f, text) ==
    LET r == Loads(text)
    IN IF r.ok /\ r.val.k = "obj"
       THEN <<Put(r.val, "filename", JStr(ListedName(f)))>>
       ELSE <<JObj(<<Item("filename", JStr(ListedName(f)))>>)>>

\* the try block of load_all_sessions on one file: the sessions it appends.
\* json.load raises on a text that is no JSON, data['filename'] = filename
\* raises on a value that is no dict, and "except: pass" skips the file.
ReadSession(f, text) ==
    LET r == Loads(text)
    IN IF r.ok /\ r.val.k = "obj"
       THEN <<Put(r.val, "filename", JStr(ListedName(f)))>>
       ELSE <<>>

\* str(value) of a cell, as csv.writer writes it
CellText(j) ==
    IF j.k = "str" THEN j.v
    ELSE IF j.k = "num" THEN <<Digits[j.v + 1]>>
    ELSE <<"?">>

\* writer.writerow([...]) of the header
Header(a) ==
    IF a = "cloud"
    THEN <<"Student", "Date", "Type", "Question", "Response", "Feedback">>
    ELSE <<"Student Name", "Session Date", "Question Type", "Question ID",
           "Question", "Response", "AI Feedback">>

Cell(resp, key) == CellText(Get(resp, key, JStr(<<>>)))

TypedRow(a, student, date, resp) ==
    IF a = "cloud"
    THEN <<student, date, <<"Typed">>, Cell(resp, "question"),
           Cell(resp, "response"), Cell(resp, "ai_feedback")>>
    ELSE <<student, date, <<"Typed">>, Cell(resp, "question_id"),
           Cell(resp, "question"), Cell(resp, "response"),
           Cell(resp, "ai_feedback")>>

VideoRow(a, student, date, resp) ==
    IF a = "cloud"
    THEN <<student, date, <<"Video">>, Cell(resp, "question"),
           Cell(resp, "notes"), <<>>>>
    ELSE <<student, date, <<"Video">>, Cell(resp, "question_id"),
           Cell(resp, "question"), <<"[Video Recording]">>,
           Cell(resp, "notes")>>

\* the rows export_to_csv / export_sessions_to_csv writes for one session
SessionRows(a, sess) ==
    LET student == CellText(Get(sess, "student_name", JStr(<<"Unknown">>)))
        date    == Take(Get(sess, "session_timestamp", JStr(<<>>)).v, 10)
        typed   == Get(sess, "typed_responses", JArr(<<>>)).v
        video   == Get(sess, "video_responses", JArr(<<>>)).v
    IN [i \in 1..Len(typed) |-> TypedRow(a, student, date, typed[i])]
       \o [i \in 1..Len(video) |-> VideoRow(a, student, date, video[i])]

\* session.get('session_timestamp', '')[:10] raises TypeError on a number
ExportRaises(ss) ==
    \E i \in 1..Len(ss) :
        Get(ss[i], "session_timestamp", JStr(<<>>)).k # "str"

ExportToCsv(a, ss) ==
    <<Header(a)>> \o Flatten([i \in 1..Len(ss) |-> SessionRows(a, ss[i])])

\* the first option of the dashboard's student filter
AllLabel(a) ==
    IF a = "cloud" THEN <<"A", "l", "l">>
    ELSE <<"A", "l", "l", " ", "S", "t", "u", "d", "e", "n", "t", "s">>

\* the options of the filter: ['All'] + list(set(s.get('student_name',
\* 'Unknown') for s in sessions))
FilterOptions(a, ss) ==
    {AllLabel(a)} \cup
    {CellText(Get(ss[i], "student_name", JStr(<<"Unknown">>))) :
        i \in 1..Len(ss)}

\* sessions if selected == 'All' else [s for s in sessions
\*                                    if s.get('student_name') == selected]
Filtered(a, ss, selected) ==
    IF selected = AllLabel(a) THEN ss
    ELSE SelectSeq(ss, LAMBDA x :
             Get(x, "student_name", [k |-> "none", v |-> <<>>])
                 = JStr(selected))

\* the options of "Sort by:" (the enhanced edition; app_cloud has none)
SortOptions(a) ==
    IF a = "cloud" THEN {"Newest First"}
    ELSE {"Newest First", "Oldest First", "Student Name"}

Reverse(ss) == [i \in 1..Len(ss) |-> ss[Len(ss) + 1 - i]]

Arranged(ss, option) ==
    IF option = "Oldest First" THEN Reverse(ss)
    ELSE IF option = "Student Name" THEN Sorted(ss, "student_name", FALSE)
    ELSE ss

-----------------------------------------------------------------------------
(* The store on its own: calls of save_session / save_session_response by   *)
(* several script runs (each browser session runs the script in a thread of *)
(* its own), a call of load_all_sessions, and the dashboard's export        *)

\* how many calls of save_session are followed
MaxSaves == 2

\* the variables of the student's session, which the store does not touch
uivars == <<app, app_mode, phase, student_name, api_key, q_index, questions,
            typed_responses, video_responses, timer_started, timer_end,
            display, banner, session, feedback_calls, selvars, call,
            session_id>>

\* the sessions that are saved: one without video responses, whose answer
\* holds a quote; one without typed responses; one by a student whose name
\* is the first option of the dashboard's filter, with a feedback text
StoreSessions ==
    { [name  |-> <<"A">>,
       typed |-> <<TypedRecord(Q("T1", "A", "typed"), <<"a", QUOTE>>,
                               "none", "feedback")>>,
       video |-> <<>>],
      [name  |-> <<"A">>,
       typed |-> <<>>,
       video |-> <<VideoRecord(Q("V1", "B", "video"), <<"n">>)>>],
      [name  |-> AllLabel(app),
       typed |-> <<TypedRecord(Q("X1", "A", "both"), <<" ", "a">>,
                               "key", "failed")>>,
       video |-> <<VideoRecord(Q("V2", "B", "video"), <<>>)>>] }

\* os.write(fd, chunk) at the offset of the descriptor: the file is padded
\* when it is shorter than the offset
WriteAt(content, offset, chunk) ==
    LET n      == Max(Len(content), offset)
        padded == [i \in 1..n |-> IF i <= Len(content) THEN content[i] ELSE NUL]
    IN SubSeq(padded, 1, offset) \o chunk
       \o SubSeq(padded, offset + Len(chunk) + 1, n)

\* the file f with the content c
WithFile(d, f, c) == [g \in DOMAIN d \cup {f} |-> IF g = f THEN c ELSE d[g]]

Open(w) == writers[w].pc = "open"

\* the call number w of save_session, of the session s at this instant: its
\* file name, save_data and text
Writer(w, s, pc) ==
    LET d == SaveData(app, s.name, now, s.typed, s.video, w, NoQuestions)
    IN [pc      |-> pc,
        file    |-> FileName(app, s.name, now),
        data    |-> d,
        text    |-> Dumps(SessionJson(d)),
        written |-> 0,
        alone   |-> \A v \in DOMAIN writers : ~Open(v)]

\* the files after the call wr has written its text and returned
Closed(st, wr, w) ==
    SaveSession(st, app, wr.data.student_name, wr.data.session_timestamp,
                wr.data.typed_responses, wr.data.video_responses, w,
                NoQuestions)

\* one call of save_session(s.name, s) from its first line to its return,
\* with no other script run at work
SaveCall(s) ==
    /\ Len(writers) < MaxSaves
    /\ \A v \in DOMAIN writers : ~Open(v)
    /\ LET w  == Len(writers) + 1
           wr == Writer(w, s, "done")
       IN /\ writers' = Append(writers, wr)
          /\ disk' = WithFile(disk, wr.file, wr.text)
          /\ store' = Closed(store, wr, w)
    /\ last' = Event("SaveCall", s.name)
    /\ UNCHANGED <<uivars, now, loader, csv,
                   recorder>>

\* save_session(name, data) up to open(filename, 'w'): the name and the
\* data are computed, the file is created or, when it exists, emptied
SaveBegin(s) ==
    /\ Len(writers) < MaxSaves
    /\ LET wr == Writer(Len(writers) + 1, s, "open")
       IN /\ writers' =
                 Append([v \in DOMAIN writers |->
                            IF Open(v) THEN [writers[v] EXCEPT !.alone = FALSE]
                            ELSE writers[v]],
                        wr)
          /\ disk' = WithFile(disk, wr.file, <<>>)
    /\ last' = Event("SaveBegin", s.name)
    /\ UNCHANGED <<uivars, now, store, loader, csv,
                   recorder>>

\* json.dump fills the buffer of f, which is written out when it is full:
\* the first half of the text reaches the file
SaveFlush(w) ==
    /\ w \in DOMAIN writers
    /\ Open(w)
    /\ writers[w].written = 0
    /\ LET k == Len(writers[w].text) \div 2
           f == writers[w].file
       IN /\ disk' = WithFile(disk, f,
                         WriteAt(disk[f], 0, SubSeq(writers[w].text, 1, k)))
          /\ writers' = [writers EXCEPT ![w].written = k]
    /\ last' = NoEvent("SaveFlush")
    /\ UNCHANGED <<uivars, now, store, loader, csv,
                   recorder>>

\* the end of the with block: the rest of the text is written, f is closed
\* and save_session returns
SaveClose(w) ==
    /\ w \in DOMAIN writers
    /\ Open(w)
    /\ LET f == writers[w].file
           t == writers[w].text
       IN /\ disk' = WithFile(disk, f,
                         WriteAt(disk[f], writers[w].written,
                                 SubSeq(t, writers[w].written + 1, Len(t))))
          /\ store' = Closed(store, writers[w], w)
    /\ writers' = [writers EXCEPT ![w].pc = "done"]
    /\ last' = NoEvent("SaveClose")
    /\ UNCHANGED <<uivars, now, loader, csv,
                   recorder>>

\* load_all_sessions() up to os.listdir(RESPONSES_DIR)
LoadBegin ==
    /\ loader.pc # "reading"
    /\ loader' = [pc       |-> "reading",
                  todo     |-> DOMAIN disk,
                  sessions |-> <<>>,
                  skipped  |-> {},
                  before   |-> {w \in DOMAIN writers : ~Open(w)}]
    /\ last' = NoEvent("LoadBegin")
    /\ UNCHANGED <<uivars, now, store, disk, writers, csv,
                   recorder>>

\* one turn of "for filename in os.listdir(RESPONSES_DIR)"
LoadRead(f) ==
    /\ loader.pc = "reading"
    /\ f \in loader.todo
    /\ loader' = [loader EXCEPT
                     !.todo = @ \ {f},
                     !.sessions = @ \o ReadSession(f, disk[f]),
                     !.skipped = IF ReadSession(f, disk[f]) = <<>>
                                 THEN @ \cup {f} ELSE @]
    /\ last' = NoEvent("LoadRead")
    /\ UNCHANGED <<uivars, now, store, disk, writers, csv,
                   recorder>>

\* sessions.sort(key=lambda x: x.get('session_timestamp', ''), reverse=True)
\* and return, or the TypeError of the sort
Finished(ld) ==
    IF SortRaises(ld.sessions, "session_timestamp")
    THEN [ld EXCEPT !.pc = "raised", !.sessions = <<>>]
    ELSE [ld EXCEPT !.pc = "returned",
                    !.sessions = Sorted(@, "session_timestamp", TRUE)]

LoadFinish ==
    /\ loader.pc = "reading"
    /\ loader.todo = {}
    /\ loader' = Finished(loader)
    /\ last' = NoEvent("LoadFinish")
    /\ UNCHANGED <<uivars, now, store, disk, writers, csv,
                   recorder>>

NextConc ==
    \/ Tick
    \/ \E s \in StoreSessions : SaveBegin(s)
    \/ \E w \in 1..MaxSaves : SaveFlush(w)
    \/ \E w \in 1..MaxSaves : SaveClose(w)
    \/ LoadBegin
    \/ \E f \in DOMAIN disk : LoadRead(f)
    \/ LoadFinish

\* the store under concurrent script runs
SpecConc == Init /\ [][NextConc]_vars

\* the orders in which os.listdir can give the files
Listings(d) ==
    {o \in [1..Cardinality(DOMAIN d) -> DOMAIN d] :
        \A i, j \in DOMAIN o : i # j => o[i] # o[j]}

\* load_all_sessions() from its first line to its return or its TypeError,
\* the files listed in the order o, with no other script run at work
LoadAllSessions(d, o) ==
    Finished([pc       |-> "reading",
              todo     |-> {},
              sessions |-> Flatten([i \in DOMAIN o |->
                                       ReadSession(o[i], d[o[i]])]),
              skipped  |-> {f \in DOMAIN d : ReadSession(f, d[f]) = <<>>},
              before   |-> {w \in DOMAIN writers : ~Open(w)}])

\* what show_teacher_dashboard makes of the loaded sessions: nothing when
\* there is none ("if not sessions: return"), else the CSV of the download
\* button for the chosen student filter and sort option
DashboardCsv(ss, selected, option) ==
    LET chosen == Filtered(app, ss, selected)
    IN IF ss = <<>> \/ selected \notin FilterOptions(app, ss) THEN NoExport
       ELSE IF ExportRaises(chosen)
       THEN [selected |-> selected, sort |-> option, ok |-> FALSE,
             rows |-> <<>>]
       ELSE [selected |-> selected, sort |-> option, ok |-> TRUE,
             rows |-> ExportToCsv(app, Arranged(chosen, option))]

\* one run of show_teacher_dashboard, with the student filter at one of its
\* options and a sort option chosen
ShowTeacherDashboard ==
    /\ \A v \in DOMAIN writers : ~Open(v)
    /\ \E ld \in {LoadAllSessions(disk, o) : o \in Listings(disk)} :
          /\ loader' = ld
          /\ IF ld.sessions = <<>>
             THEN csv' = NoExport /\ last' = NoEvent("ShowTeacherDashboard")
             ELSE \E selected \in FilterOptions(app, ld.sessions),
                     option \in SortOptions(app) :
                     /\ csv' = DashboardCsv(ld.sessions, selected, option)
                     /\ last' = Event("ShowTeacherDashboard", selected)
    /\ UNCHANGED <<uivars, now, store, disk, writers,
                   recorder>>

NextStore ==
    \/ Tick
    \/ \E s \in StoreSessions : SaveCall(s)
    \/ ShowTeacherDashboard

\* the store under one script run at a time
SpecStore == Init /\ [][NextStore]_vars

\* a file in RESPONSES_DIR that save_session did not write, and what it
\* holds: the first half of a session file, a JSON list, a JSON object
\* whose session_timestamp is a number
ForeignFile == [timestamp |-> 0, safe_name |-> <<"x">>]

ForeignTexts ==
    { LET t == Dumps(SessionJson(
                   SaveData(app, <<"A">>, 0, <<>>, <<>>, 0, NoQuestions)))
      IN SubSeq(t, 1, Len(t) \div 2),
      Dumps(JArr(<<>>)),
      Dumps(JObj(<<Item("session_timestamp", JNum(0))>>)) }

\* such a file appears in the directory
PutFile(text) ==
    /\ ForeignFile \notin DOMAIN disk
    /\ disk' = WithFile(disk, ForeignFile, text)
    /\ last' = NoEvent("PutFile")
    /\ UNCHANGED <<uivars, now, store, writers, loader, csv,
                   recorder>>

NextDir ==
    \/ NextStore
    \/ \E text \in ForeignTexts : PutFile(text)

\* the store in a directory that holds a file of another origin
SpecDir == Init /\ [][NextDir]_vars

-----------------------------------------------------------------------------
(* The dashboard beside a live session: one browser session in which the    *)
(* mode is switched while a student's session is under way, and the sessions *)
(* of other students are saved meanwhile                                     *)

\* the radio is set to the Teacher Dashboard: the run that follows is a run
\* of show_teacher_dashboard with both select boxes at their first option
SwitchToDashboard ==
    /\ call = "idle"
    /\ app_mode = "student"
    /\ Rerun("teacher")
    /\ last' = NoEvent("SwitchMode")
    /\ \E ld \in {LoadAllSessions(disk, o) : o \in Listings(disk)} :
          /\ loader' = ld
          /\ csv' = DashboardCsv(ld.sessions, AllLabel(app), "Newest First")
    /\ UNCHANGED <<app, now, session, feedback_calls, selvars, call,
                   session_id, disk, writers,
                   recorder>>

\* the radio is set back to the student's page
SwitchToStudent ==
    /\ app_mode = "teacher"
    /\ SwitchMode

\* a select box of the dashboard is changed
SelectOnDashboard ==
    /\ call = "idle"
    /\ app_mode = "teacher"
    /\ ShowTeacherDashboard

\* the student of the live session, who answers every question
NextDash ==
    \/ SwitchToDashboard
    \/ SwitchToStudent
    \/ SelectOnDashboard
    \/ \E s \in StoreSessions : SaveCall(s)
    \/ StartPractice(<<"A">>, "none", "present")
    \/ SubmitTyped(<<" ", "a">>, "feedback")
    \/ BeginVideo
    \/ StartTimer
    \/ SubmitNotes(<<"n">>)

SpecDash == Init /\ [][NextDash]_vars

-----------------------------------------------------------------------------
(* The student who goes on: one session in which the student answers each   *)
(* question with a non-empty text, confirms the introduction and submits    *)
(* the notes, and neither leaves nor switches the mode                      *)

\* the click on the button of the typed page, whatever becomes of the call
\* of get_ai_feedback it makes
ClickTyped ==
    \/ \E fb \in FeedbackOutcomes : SubmitTyped(<<" ", "a">>, fb)
    \/ SubmitTypedBlocks(<<" ", "a">>)

\* the click on the button of the video page
ClickNotes == \E notes \in Notes : SubmitNotes(notes)

\* the timer is started while the clock of the model can still reach its
\* expiry
StartTimerInTime ==
    /\ \E t \in Instants : t >= now + TimerTicks
    /\ StartTimer

NextLive ==
    \/ Tick
    \/ \E key \in Keys : StartPractice(<<"A">>, key, "present")
    \/ ClickTyped
    \/ BeginVideo
    \/ StartTimerInTime
    \/ Poll
    \/ ClickNotes

\* time passes, and the student clicks the button of the page that is shown
SpecLive ==
    /\ Init
    /\ [][NextLive]_vars
    /\ WF_vars(Tick)
    /\ WF_vars(ClickTyped)
    /\ WF_vars(BeginVideo)
    /\ WF_vars(ClickNotes)

-----------------------------------------------------------------------------
(* The recorder on its own: the events of the component's page *)

\* every variable but the recorder
pagevars == <<uivars, now, store, iovars>>

\* getUserMedia is settled: the user allows the camera or does not
InitCamera ==
    /\ recorder.camera = "asking"
    /\ \E granted \in BOOLEAN : recorder' = initCamera(recorder, granted)
    /\ last' = NoEvent("InitCamera")
    /\ UNCHANGED pagevars

\* a click on Start Recording
ClickStart ==
    /\ recorder.startBtn
    /\ recorder' = startRecording(recorder)
    /\ last' = NoEvent("ClickStart")
    /\ UNCHANGED pagevars

\* a click on Stop Recording
ClickStop ==
    /\ recorder.stopBtn
    /\ recorder' = stopRecording(recorder)
    /\ last' = NoEvent("ClickStop")
    /\ UNCHANGED pagevars

\* a second has passed for an active interval
IntervalFires ==
    /\ recorder.intervals # {}
    /\ recorder' = IntervalCallback(recorder)
    /\ last' = NoEvent("IntervalFires")
    /\ UNCHANGED pagevars

\* the stop event of the MediaRecorder is delivered
OnStop ==
    /\ recorder.stopping
    /\ recorder' = onstop(recorder)
    /\ last' = NoEvent("OnStop")
    /\ UNCHANGED pagevars

\* the FileReader has read the blob
OnLoadEnd ==
    /\ recorder.loading
    /\ recorder' = onloadend(recorder)
    /\ last' = NoEvent("OnLoadEnd")
    /\ UNCHANGED pagevars

\* a click on Record Again
ClickRetry ==
    /\ recorder.playback
    /\ recorder' = retryRecording(recorder)
    /\ last' = NoEvent("ClickRetry")
    /\ UNCHANGED pagevars

\* a click on Submit This Recording
ClickSubmit ==
    /\ recorder.playback
    /\ recorder' = submitRecording(recorder)
    /\ last' = NoEvent("ClickSubmit")
    /\ UNCHANGED pagevars

NextRec ==
    \/ InitCamera
    \/ ClickStart
    \/ ClickStop
    \/ IntervalFires
    \/ OnStop
    \/ OnLoadEnd
    \/ ClickRetry
    \/ ClickSubmit

\* the video page of the enhanced edition, which holds the component
InitRec == Init /\ app = "enhanced"

SpecRec == InitRec /\ [][NextRec]_vars

-----------------------------------------------------------------------------
(* Properties *)

\* the files a session wrote
RecordsOf(s) == {f \in DOMAIN store : store[f].session = s}

\* C1: each session that reaches complete is written to the store exactly
\* once: whatever happens afterwards (the completion page is rendered again,
\* the mode is switched, the session is reset), the store holds exactly one
\* record of it.  (After a save that raised, the banner is the warning.)
C1_WrittenExactlyOnce ==
    /\ \A s \in 1..session : Cardinality(RecordsOf(s)) <= 1
    /\ (Rendered("complete") /\ banner = "saved")
           => Cardinality(RecordsOf(session)) = 1

PhaseOrder ==
    { <<"welcome", "typed">>, <<"typed", "video_intro">>,
      <<"video_intro", "video">>, <<"video", "complete">> }

ResetEvents == {"ExitSession", "PracticeAgain", "StartOver"}

\* C2: the phase changes only along welcome -> typed -> video_intro ->
\* video -> complete, or by a reset (the keys are deleted, and the next run
\* of the student page sets 'welcome'); the accepted answer to the last
\* typed question always leads to video_intro.
C2_PhaseOrder ==
    [][ /\ phase' # phase =>
              \/ <<phase, phase'>> \in PhaseOrder
              \/ last'.op \in ResetEvents /\ phase' \in {"welcome", "none"}
              \/ phase = "none" /\ phase' = "welcome"
        /\ ( /\ last'.op = "SubmitTyped"
             /\ typed_responses' # typed_responses
             /\ q_index = Len(questions.typed) - 1 )
              => phase' = "video_intro" ]_vars

\* C2 happens: the last typed answer was just accepted
C2_Witness ==
    /\ last.op = "SubmitTyped"
    /\ phase = "video_intro"
    /\ Len(typed_responses) = Len(questions.typed)

\* C3: no question id occurs in both the typed and the video list of a
\* result of select_session_questions, for every catalog and all counts.
C3_Disjoint == Ids(questions.typed) \cap Ids(questions.video) = {}

\* C3 happens: a question eligible for both lists was selected as typed and
\* the video list is not empty either
C3_Witness ==
    /\ last.op = "SelectQuestions"
    /\ questions.video # <<>>
    /\ \E i \in 1..Len(catalog) :
          /\ catalog[i].type = "both"
          /\ catalog[i].id \in Ids(questions.typed)

\* C4: every selected typed question has type typed or both, every selected
\* video question has type video or both.
C4_Eligible ==
    /\ \A i \in 1..Len(questions.typed) :
          questions.typed[i].type \in {"typed", "both"}
    /\ \A i \in 1..Len(questions.video) :
          questions.video[i].type \in {"video", "both"}

\* C4 happens: the catalog had a question of the wrong kind for each list,
\* and both lists were filled
C4_Witness ==
    /\ last.op = "SelectQuestions"
    /\ questions.typed # <<>>
    /\ questions.video # <<>>
    /\ \E i, j \in 1..Len(catalog) :
          catalog[i].type = "video" /\ catalog[j].type = "typed"

\* C5: in the typed phase a submission of an empty or whitespace-only
\* answer changes nothing: not the phase, the cursor or the response lists,
\* no record is appended or stored and the feedback client is not called.
C5_EmptyAnswerRejected ==
    [][ (last'.op = "SubmitTyped" /\ Strip(last'.input) = <<>>)
            => UNCHANGED <<phase, q_index, questions, typed_responses,
                           video_responses, store, feedback_calls>> ]_vars

\* C5 happens: a whitespace-only answer was submitted on the typed page
C5_Witness ==
    /\ last.op = "SubmitTyped"
    /\ last.input = <<" ">>
    /\ phase = "typed"

\* C6: a start request leads from welcome to typed only with a name that is
\* not empty after trimming; with an empty or whitespace-only name it is
\* rejected and changes no state.
C6_StartNeedsTrimmedName ==
    [][ /\ (phase = "welcome" /\ phase' = "typed")
              => Strip(student_name') # <<>>
        /\ (last'.op = "StartPractice" /\ Strip(last'.input) = <<>>)
              => UNCHANGED <<phase, student_name, api_key, q_index,
                             questions, typed_responses, video_responses,
                             store, session>> ]_vars

\* a stored record that answers every question its session was asked
WholeRecord(r) ==
    /\ Len(r.typed_responses) = Len(r.asked.typed)
    /\ Len(r.video_responses) = Len(r.asked.video)
    /\ \A i \in 1..Len(r.asked.typed) :
          r.typed_responses[i].question_id = r.asked.typed[i].id
    /\ \A i \in 1..Len(r.asked.video) :
          r.video_responses[i].question_id = r.asked.video[i].id

\* C7: no partial session is persisted: Exit Session during typed,
\* video_intro or video discards the responses and leaves the store as it
\* was, and every stored record has one response for every question of its
\* session's typed and video sets.
C7_NoPartialSession ==
    /\ [](\A f \in DOMAIN store : WholeRecord(store[f]))
    /\ [][ ( /\ last'.op = "ExitSession"
             /\ phase \in {"typed", "video_intro", "video"} )
              => /\ store' = store
                 /\ typed_responses' = <<>>
                 /\ video_responses' = <<>> ]_vars

\* C7 happens: the session was left on the video page, with answers given
C7_Witness ==
    /\ last.op = "ExitSession"
    /\ last.at = "video"
    /\ session > 0
    /\ typed_responses = <<>>

\* C8: on the video page a submission of notes is accepted in every timer
\* state and with empty notes: it appends one record and advances the
\* cursor or, on the last question, moves to complete.
C8_NotesAlwaysAccepted ==
    [][ last'.op = "SubmitNotes"
            => /\ Len(video_responses') = Len(video_responses) + 1
               /\ video_responses'[Len(video_responses')].notes = last'.input
               /\ IF q_index < Len(questions.video) - 1
                  THEN phase' = "video" /\ q_index' = q_index + 1
                  ELSE phase' = "complete" ]_vars

\* the timer of the current question is started and the number on the page
\* was computed at the current instant
TimerFresh ==
    /\ app = "cloud"
    /\ Rendered("video")
    /\ timer_started[q_index]
    /\ last.op # "Tick"

\* C9, as claimed: the remaining time of a started countdown is
\* max(0, expiry instant - current time).
C9_ExactDifference ==
    TimerFresh =>
        display[1] * TicksPerSecond = Max(0, timer_end[q_index] - now)

\* C9, amended: the remaining time of a started countdown is the whole
\* seconds of max(0, expiry instant - current time), the fraction dropped;
\* it is never negative, is the same when queried again with no time
\* passed, and never increases.
C9_WholeSeconds ==
    /\ [](TimerFresh =>
            LET d == Max(0, timer_end[q_index] - now)
            IN /\ display[1] >= 0
               /\ display[1] * TicksPerSecond <= d
               /\ d < (display[1] + 1) * TicksPerSecond)
    /\ [][ ( /\ app = "cloud" /\ Rendered("video") /\ timer_started[q_index]
             /\ Rendered("video")' /\ q_index' = q_index )
              => /\ display'[1] <= display[1]
                 /\ (TimerFresh /\ now' = now) => display' = display ]_vars

\* C9 happens: a started countdown was polled half a second after a whole
\* number of seconds, and the page shows the seconds without the half
C9_Witness ==
    /\ TimerFresh
    /\ last.op = "Poll"
    /\ (timer_end[q_index] - now) % TicksPerSecond # 0
    /\ display[1] > 0

\* C10: the passing of time (expiry included) and the polling of the
\* remaining time change nothing of the session: phase, cursor, question
\* sets, response lists, the timers' start flags and expiry instants, and
\* the store stay as they were.
C10_PollChangesNothing ==
    [][ last'.op \in {"Tick", "Poll"}
            => UNCHANGED <<phase, q_index, questions, typed_responses,
                           video_responses, timer_started, timer_end,
                           student_name, api_key, store>> ]_vars

\* C10 happens: the countdown expired and was polled after that
C10_Witness ==
    /\ last.op = "Poll"
    /\ phase = "video"
    /\ now >= timer_end[q_index]
    /\ display = <<0>>

\* C11: displaying a timed question never starts its countdown: the expiry
\* instant of a question is set only by the Start Timer click, on the
\* question displayed, to the instant of the click plus 60 seconds, and the
\* page then shows the full 60 seconds whatever time passed before.
C11_TimerStartedExplicitly ==
    [][ /\ \A i \in DOMAIN timer_end' :
              (i \notin DOMAIN timer_end \/ timer_end'[i] # timer_end[i])
                  => /\ last'.op = "StartTimer"
                     /\ i = q_index
                     /\ timer_end'[i] = now + TimerTicks
        /\ \A i \in DOMAIN timer_started' :
              (timer_started'[i] /\ ~(i \in DOMAIN timer_started
                                        /\ timer_started[i]))
                  => last'.op = "StartTimer" /\ i = q_index
        /\ last'.op = "StartTimer" => display' = <<TimerSeconds>> ]_vars

\* C11 happens: the timer was started after time had passed, and the
\* countdown shows the full 60 seconds
C11_Witness ==
    /\ last.op = "StartTimer"
    /\ now >= TimerTicks - 1
    /\ timer_end[q_index] = now + TimerTicks
    /\ display = <<TimerSeconds>>

\* an accepted typed submission: the record it appended
Accepted(r) ==
    /\ typed_responses' = Append(typed_responses, r)
    /\ r.response = last'.input
    /\ LET to == AfterTyped(q_index, Len(questions.typed))
       IN phase' = to.phase /\ q_index' = to.q_index

\* C19: without a feedback key, the submission of a non-empty typed answer
\* does not call the feedback client, appends the record, which has no
\* feedback text, and advances the cursor or the phase; the page that
\* follows is rendered.
C19_NoKeyNoFeedback ==
    [][ ( /\ last'.op = "SubmitTyped"
          /\ Strip(last'.input) # <<>>
          /\ api_key = "none" )
            => /\ feedback_calls' = feedback_calls
               /\ Len(typed_responses') = Len(typed_responses) + 1
               /\ LET r == typed_responses'[Len(typed_responses')]
                  IN "ai_feedback" \notin DOMAIN r /\ Accepted(r)
               /\ ~PageRaises(phase', questions') ]_vars

\* C19 happens: an answer was accepted in a session without a key
C19_Witness ==
    /\ last.op = "SubmitTyped"
    /\ api_key = "none"
    /\ typed_responses # <<>>
    /\ typed_responses[Len(typed_responses)].response = last.input

\* the texts get_ai_feedback returns from its except branches
Placeholders == {"install", "failed"}

\* C20: with a feedback key, the submission of a non-empty typed answer
\* calls the feedback client once and appends the record with the text the
\* call returned, which for a failed call is the placeholder of its except
\* branch; the cursor or the phase advances the same way whatever the call
\* returned.
C20_FeedbackFailureTolerated ==
    [][ ( /\ last'.op = "SubmitTyped"
          /\ Strip(last'.input) # <<>>
          /\ api_key = "key" )
            => /\ feedback_calls' = feedback_calls + 1
               /\ Len(typed_responses') = Len(typed_responses) + 1
               /\ LET r == typed_responses'[Len(typed_responses')]
                  IN /\ "ai_feedback" \in DOMAIN r
                     /\ r.ai_feedback \in FeedbackOutcomes
                     /\ Accepted(r)
               /\ ~PageRaises(phase', questions') ]_vars

\* C20 happens: the feedback call of the last typed answer failed, and the
\* session is on the video introduction with the placeholder in the record
C20_Witness ==
    /\ last.op = "SubmitTyped"
    /\ phase = "video_intro"
    /\ typed_responses # <<>>
    /\ "ai_feedback" \in DOMAIN typed_responses[Len(typed_responses)]
    /\ typed_responses[Len(typed_responses)].ai_feedback \in Placeholders

\* the sessions of a loaded list whose file is f
LoadedFrom(f) ==
    {i \in 1..Len(loader.sessions) :
        Get(loader.sessions[i], "filename", JStr(<<>>)) = JStr(ListedName(f))}

\* C12: round trip: load_all_sessions, called after save_session returned,
\* returns for every file a save wrote one session whose typed_responses
\* and video_responses are the lists that were saved under that name, in
\* order and content.
C12_RoundTrip ==
    last.op = "ShowTeacherDashboard" =>
        /\ loader.pc = "returned"
        /\ \A f \in DOMAIN store :
              /\ Cardinality(LoadedFrom(f)) = 1
              /\ \A i \in LoadedFrom(f) :
                    /\ Get(loader.sessions[i], "typed_responses", JStr(<<>>))
                           = TypedListJson(store[f].typed_responses)
                    /\ Get(loader.sessions[i], "video_responses", JStr(<<>>))
                           = VideoListJson(store[f].video_responses)

\* C12 happens: two sessions were saved and loaded, one with an answer that
\* holds a quote
C12_Witness ==
    /\ last.op = "ShowTeacherDashboard"
    /\ Len(loader.sessions) = 2
    /\ \E f \in DOMAIN store :
          /\ store[f].typed_responses # <<>>
          /\ \E i \in 1..Len(store[f].typed_responses[1].response) :
                store[f].typed_responses[1].response[i] = QUOTE

\* C13: save never overwrites a stored session: after any calls of
\* save_session the directory holds one file for each call, with the text
\* that call wrote.
C13_NeverOverwrites ==
    /\ Cardinality(DOMAIN disk) = Len(writers)
    /\ \A w \in DOMAIN writers : disk[writers[w].file] = writers[w].text

Done(w) == writers[w].pc = "done"

\* the file of the call w holds the text w wrote
Intact(w) ==
    /\ writers[w].file \in DOMAIN disk
    /\ disk[writers[w].file] = writers[w].text

\* C14: two calls of save_session that save two different sessions at the
\* same time never contend: when both have returned, under every
\* interleaving of their steps, the two sessions are in the directory as
\* two files, each with the text its call wrote.
C14_ConcurrentSavesIndependent ==
    \A w, v \in DOMAIN writers :
        ( /\ w # v
          /\ writers[w].text # writers[v].text
          /\ Done(w) /\ Done(v)
          /\ ~writers[w].alone /\ ~writers[v].alone )
            => /\ writers[w].file # writers[v].file
               /\ Intact(w)
               /\ Intact(v)

\* the files load_all_sessions can read as a session: JSON, and a dict
Readable(f) == Loads(disk[f]).ok /\ Loads(disk[f]).val.k = "obj"

\* C15: load_all_sessions returns every stored session that can be read
\* and skips each file that cannot; no bad file makes the call fail or
\* hides another session.
C15_LoadSkipsBadFiles ==
    last.op = "ShowTeacherDashboard" =>
        /\ loader.pc = "returned"
        /\ \A f \in DOMAIN disk :
              Cardinality(LoadedFrom(f)) = IF Readable(f) THEN 1 ELSE 0

\* no other call of save_session has used the file of the call w
Undisturbed(w) ==
    \A v \in DOMAIN writers : v # w => writers[v].file # writers[w].file

\* the session load_all_sessions makes of the file the call w wrote
SessionOf(w) ==
    Put(SessionJson(writers[w].data), "filename",
        JStr(ListedName(writers[w].file)))

TypedOf(x) == Get(x, "typed_responses", JArr(<<>>)).v
VideoOf(x) == Get(x, "video_responses", JArr(<<>>)).v

RECURSIVE ResponseCount(_)
ResponseCount(ss) ==
    IF ss = <<>> THEN 0
    ELSE Len(TypedOf(Head(ss))) + Len(VideoOf(Head(ss)))
         + ResponseCount(Tail(ss))

\* the names of the students of the loaded sessions
StudentsLoaded ==
    {Get(loader.sessions[i], "student_name", JStr(<<>>)).v :
        i \in 1..Len(loader.sessions)}

SessionsBy(n) ==
    SelectSeq(loader.sessions,
              LAMBDA x : Get(x, "student_name", JStr(<<>>)) = JStr(n))

\* the dashboard has just exported the sessions it loaded
Exported ==
    /\ last.op = "ShowTeacherDashboard"
    /\ loader.pc = "returned"
    /\ loader.sessions # <<>>

\* C17: the export filtered by a student name n holds exactly the rows of
\* the sessions whose student_name is n, for every name; the unfiltered
\* export has one row for each response of all sessions.
C17_ExportByStudent ==
    Exported =>
        /\ csv.ok
        /\ csv.rows # <<>>
        /\ \A n \in StudentsLoaded :
              csv.selected = n =>
                  /\ Len(csv.rows) - 1 = ResponseCount(SessionsBy(n))
                  /\ \A i \in 2..Len(csv.rows) : csv.rows[i][1] = n
        /\ csv.selected = AllLabel(app) =>
              Len(csv.rows) - 1 = ResponseCount(loader.sessions)

SixColumns == <<"Student", "Date", "Type", "Question", "Response", "Feedback">>

\* the text of a field of a response, empty when the field is absent
Field(resp, key) == Get(resp, key, JStr(<<>>)).v

\* C18: the export has the columns Student, Date, Type, Question, Response,
\* Feedback and one row for each response; the Response cell holds the
\* typed answer or the notes, the Feedback cell the feedback text or, when
\* the response has none, nothing; a session without typed or without video
\* responses gives the rows of the other kind only.
C18_ExportFormat ==
    Exported =>
        /\ csv.ok
        /\ csv.rows # <<>>
        /\ csv.rows[1] = SixColumns
        /\ Len(csv.rows) - 1
              = ResponseCount(Filtered(app, loader.sessions, csv.selected))
        /\ \A i \in 2..Len(csv.rows) :
              LET row == csv.rows[i]
              IN /\ Len(row) = Len(SixColumns)
                 /\ \E j \in 1..Len(loader.sessions) :
                       LET x == loader.sessions[j]
                       IN \/ /\ row[3] = <<"Typed">>
                             /\ \E k \in 1..Len(TypedOf(x)) :
                                   /\ row[4] = Field(TypedOf(x)[k], "question")
                                   /\ row[5] = Field(TypedOf(x)[k], "response")
                                   /\ row[6] = Field(TypedOf(x)[k],
                                                     "ai_feedback")
                          \/ /\ row[3] = <<"Video">>
                             /\ \E k \in 1..Len(VideoOf(x)) :
                                   /\ row[4] = Field(VideoOf(x)[k], "question")
                                   /\ row[5] = Field(VideoOf(x)[k], "notes")
                                   /\ row[6] = <<>>

\* C21: a typed submission with feedback enabled always completes: while
\* the feedback call hangs, a step of the program that ends the call (a
\* timeout, taken as a failed request, after which the record is appended
\* and the cursor moved) is possible.
C21_HungCallCutOff ==
    call = "pending" => ENABLED (Next /\ call' = "idle")

\* the responses as the handler of the step left them: those of before,
\* with the record of the last video question when the step submitted it
KeptResponses ==
    /\ typed_responses' = typed_responses
    /\ \/ video_responses' = video_responses
       \/ /\ last'.op = "SubmitNotes"
          /\ Len(video_responses') = Len(video_responses) + 1
          /\ SubSeq(video_responses', 1, Len(video_responses))
                = video_responses

\* C22: when the write of a completed session fails, the failure is
\* reported (st.warning), the phase stays complete and the typed and video
\* response lists in memory are as they were; they stay so while the page
\* is shown again.
C22_WriteFailureKeepsSession ==
    [][ banner' = "warning" =>
            /\ phase' = "complete"
            /\ KeptResponses
            /\ Len(typed_responses') = Len(questions'.typed)
            /\ Len(video_responses') = Len(questions'.video) ]_vars

\* C22 happens: the save of a completed session with typed and video
\* responses failed
C22_Witness ==
    /\ banner = "warning"
    /\ phase = "complete"
    /\ typed_responses # <<>>
    /\ video_responses # <<>>
    /\ store = <<>>

\* the questions of the built-in default set
FromDefaults(qs) ==
    /\ qs # NoQuestions
    /\ Ids(qs.typed) \cup Ids(qs.video) \subseteq Ids(DefaultQuestions)

\* C23: when the questions file is absent or unreadable (missing, malformed,
\* without the field 'questions'), a started session has questions, and
\* they are questions of the built-in default set.
C23_CatalogFallsBack ==
    ( /\ last.op = "StartPractice"
      /\ StartEnabled(last.input)
      /\ last.file # "present" )
        => FromDefaults(questions)

\* C24: a session whose typed or video list is shorter than requested, one
\* of them empty included, is usable: no page of it raises, so that the
\* submissions and the video_intro confirmation lead it to complete.
\* (Stated of sessions that have a question of at least one kind.)
C24_ShortSessionUsable ==
    ( /\ call = "idle"
      /\ app_mode = "student"
      /\ questions # NoQuestions )
        => ~PageRaises(phase, questions)

\* how many questions of category c a list holds
CountCat(qs, c) == Len(SelectSeq(qs, LAMBDA q : q.category = c))

\* the video-eligible questions of category c that were not chosen as typed
VideoLeft(c) ==
    SelectSeq(VideoEligible(catalog),
              LAMBDA q : q.category = c /\ q.id \notin Ids(questions.typed))

QuotaCategories == {Categories[k] : k \in 1..Len(Categories)}

\* C25: with typed_count and video_count of at least the sums of the
\* quotas, the quota-based selection gives, for each category c with a
\* quota, min(typed quota of c, typed-eligible questions of c) typed
\* questions of c and min(video quota of c, video-eligible questions of c
\* not chosen as typed) video questions of c, and no question of a category
\* without a quota.
C25_QuotasFilled ==
    ( /\ last.op = "SelectQuestions"
      /\ app = "enhanced"
      /\ typed_count >= QuotaSum(TypedQuotas, 1)
      /\ video_count >= QuotaSum(VideoQuotas, 1) )
        => /\ \A c \in QuotaCategories :
                 /\ CountCat(questions.typed, c)
                       = Min(TypedQuotas[c], CountCat(TypedEligible(catalog), c))
                 /\ CountCat(questions.video, c)
                       = Min(VideoQuotas[c], Len(VideoLeft(c)))
           /\ \A i \in 1..Len(questions.typed) :
                 questions.typed[i].category \in QuotaCategories
           /\ \A i \in 1..Len(questions.video) :
                 questions.video[i].category \in QuotaCategories

\* C25 happens: a category had more typed-eligible questions than its
\* quota, the catalog had a question of a category without a quota, and a
\* question eligible for both lists was chosen as typed
C25_Witness ==
    /\ last.op = "SelectQuestions"
    /\ \E c \in QuotaCategories :
          CountCat(TypedEligible(catalog), c) > TypedQuotas[c]
    /\ \E i \in 1..Len(catalog) : catalog[i].category \notin QuotaCategories
    /\ \E i \in 1..Len(questions.typed) : questions.typed[i].type = "both"

\* C26: with counts of at least the sums of the quotas, every category that
\* has a positive quota and an eligible question in the catalog has a
\* question in the list, for the typed list and for the video list.
C26_CategoriesCovered ==
    ( /\ last.op = "SelectQuestions"
      /\ typed_count >= QuotaSum(TypedQuotas, 1)
      /\ video_count >= QuotaSum(VideoQuotas, 1) )
        => \A c \in QuotaCategories :
              /\ ( /\ TypedQuotas[c] > 0
                   /\ CountCat(TypedEligible(catalog), c) > 0 )
                     => CountCat(questions.typed, c) > 0
              /\ ( /\ VideoQuotas[c] > 0
                   /\ CountCat(VideoEligible(catalog), c) > 0 )
                     => CountCat(questions.video, c) > 0

\* C27: select_session_questions never raises, whatever the catalog: it has
\* a result for every catalog and all counts (a random.sample that cannot
\* be drawn would leave none); an empty catalog gives two empty lists, a
\* category with fewer eligible questions than its quota gives the
\* questions it has, and the lists are no longer than typed_count and
\* video_count.
C27_SelectionNeverRaises ==
    /\ SelectSessionQuestions(app, catalog, typed_count, video_count) # {}
    /\ last.op = "SelectQuestions" =>
          /\ Len(questions.typed) <= typed_count
          /\ Len(questions.video) <= video_count
          /\ catalog = <<>> => questions = NoQuestions
          /\ \A c \in QuotaCategories :
                /\ CountCat(questions.typed, c)
                      <= CountCat(TypedEligible(catalog), c)
                /\ CountCat(questions.video, c)
                      <= CountCat(VideoEligible(catalog), c)

\* C27 happens: the quota-based selection was made from a catalog with one
\* typed question of a category whose typed quota is two, and returned it
C27_Witness ==
    /\ last.op = "SelectQuestions"
    /\ app = "enhanced"
    /\ \E c \in QuotaCategories :
          /\ CountCat(TypedEligible(catalog), c) > 0
          /\ CountCat(TypedEligible(catalog), c) < TypedQuotas[c]
          /\ CountCat(questions.typed, c) > 0

\* the question list of a phase that has one
ActiveList(ph, qs) == IF ph = "typed" THEN qs.typed ELSE qs.video

CursorInRange ==
    phase \in {"typed", "video"} =>
        /\ 0 <= q_index
        /\ q_index <= Len(ActiveList(phase, questions))

\* the phase that follows the typed and the video phase
Following(ph) == IF ph = "typed" THEN "video_intro" ELSE "complete"

\* the step is an accepted submission: a record was appended
Submitted ==
    \/ last'.op = "SubmitTyped" /\ typed_responses' # typed_responses
    \/ last'.op = "SubmitNotes" /\ video_responses' # video_responses

\* C28: in the typed and the video phase the cursor is at least 0 and at
\* most the length of the phase's question list; the phase advances exactly
\* in the accepted submission whose cursor is on the last question of the
\* list, and every other accepted submission moves the cursor by one.
C28_CursorBounds ==
    [][ /\ CursorInRange'
        /\ phase \in {"typed", "video"} =>
              LET n == Len(ActiveList(phase, questions))
              IN /\ phase' = Following(phase)
                       => Submitted /\ q_index + 1 = n
                 /\ (Submitted /\ q_index + 1 = n)
                       => phase' = Following(phase)
                 /\ (Submitted /\ q_index + 1 < n)
                       => phase' = phase /\ q_index' = q_index + 1
                 /\ (~Submitted /\ phase' = phase)
                       => q_index' = q_index ]_vars

\* C28 happens: the answer to the last video question of a list of two was
\* submitted and the session is complete
C28_Witness ==
    /\ last.op = "SubmitNotes"
    /\ phase = "complete"
    /\ Len(questions.video) = 2
    /\ q_index = 1
    /\ Len(video_responses) = 2

\* the list of the next state is the list tr with one record after it
GrewByOne(tr, next) ==
    /\ Len(next) = Len(tr) + 1
    /\ SubSeq(next, 1, Len(tr)) = tr

\* C29: response records are append-only: an accepted submission puts one
\* record at the end of the list of its kind and leaves the other list as
\* it is; no other step changes a list, but for the reset that ends the
\* session and empties both.
C29_AppendOnly ==
    [][ /\ (last'.op = "SubmitTyped" /\ Strip(last'.input) # <<>>)
              => /\ GrewByOne(typed_responses, typed_responses')
                 /\ typed_responses'[Len(typed_responses')].response
                       = last'.input
                 /\ video_responses' = video_responses
        /\ ( /\ last'.op = "SubmitNotes"
             /\ (phase' # phase \/ q_index' # q_index) )
              => /\ GrewByOne(video_responses, video_responses')
                 /\ video_responses'[Len(video_responses')].notes
                       = last'.input
                 /\ typed_responses' = typed_responses
        /\ typed_responses' # typed_responses
              => \/ last'.op = "SubmitTyped"
                 \/ last'.op \in ResetEvents /\ typed_responses' = <<>>
        /\ video_responses' # video_responses
              => \/ last'.op = "SubmitNotes"
                 \/ last'.op \in ResetEvents /\ video_responses' = <<>> ]_vars

\* C29 happens: a second video record was appended after the first, with
\* typed records in the other list
C29_Witness ==
    /\ last.op = "SubmitNotes"
    /\ Len(video_responses) = 2
    /\ video_responses[1].question_id # video_responses[2].question_id
    /\ typed_responses # <<>>

\* C30: complete is terminal: from a session whose phase is complete no
\* step changes the phase or the two response lists, but for a reset
\* (Practice Again, Start Over, Exit Session), which deletes the keys of
\* the session; the next run of the student page (the same run, unless the
\* dashboard is shown) starts a new session in welcome with empty response
\* lists and cursor 0.
C30_CompleteTerminal ==
    [][ /\ phase = "complete" =>
              \/ /\ phase' = "complete"
                 /\ typed_responses' = typed_responses
                 /\ video_responses' = video_responses
              \/ /\ last'.op \in ResetEvents
                 /\ phase' = IF app_mode = "student" THEN "welcome" ELSE "none"
                 /\ typed_responses' = <<>>
                 /\ video_responses' = <<>>
                 /\ q_index' = 0
        /\ phase = "none" =>
              /\ phase' \in {"none", "welcome"}
              /\ typed_responses' = <<>>
              /\ video_responses' = <<>>
              /\ q_index' = 0 ]_vars

\* C30 happens: a completed session with records in both lists was left by
\* Practice Again
C30_Witness ==
    /\ last.op = "PracticeAgain"
    /\ phase = "welcome"
    /\ typed_responses = <<>>
    /\ video_responses = <<>>
    /\ q_index = 0
    /\ RecordsOf(session) # {}

\* C31: the identifier under which a session is persisted (the stem of its
\* file, and 'session_id' of its record in the enhanced edition) is made of
\* the second in which the session was started and the sanitized name of
\* the student.
C31_IdFromStart ==
    [][ \A f \in DOMAIN store' \ DOMAIN store :
           /\ session_id # <<>>
           /\ f.timestamp = session_id[1]
           /\ f.safe_name = SafeName(app, student_name)
           /\ app = "enhanced" => store'[f].session_id = f ]_vars

\* the live session: its phase, cursor, question sets and response lists
LiveSession ==
    <<phase, q_index, questions, typed_responses, video_responses>>

\* C32: the dashboard is read-only and independent of a live session: a run
\* of it (loading, filtering, counting, exporting) writes nothing to the
\* store, and switching to the Teacher Dashboard, using it and switching
\* back during typed, video_intro or video leaves the phase, the cursor, the
\* question sets and the response lists of the live session as they were.
C32_DashboardReadOnly ==
    [][ /\ (app_mode' = "teacher"
               /\ last'.op \in {"SwitchMode", "ShowTeacherDashboard"})
              => /\ disk' = disk
                 /\ store' = store
        /\ (phase \in {"typed", "video_intro", "video"}
               /\ last'.op \in {"SwitchMode", "ShowTeacherDashboard"})
              => LiveSession' = LiveSession ]_vars

\* C32 happens: the student is back on the second video question after the
\* dashboard exported the sessions of other students
C32_Witness ==
    /\ last.op = "SwitchMode"
    /\ app_mode = "student"
    /\ phase = "video"
    /\ q_index = 1
    /\ video_responses # <<>>
    /\ csv # NoExport
    /\ csv.ok
    /\ Len(csv.rows) > 1

\* C33: the confirmation in video_intro is always accepted and changes only
\* the phase, to video: the cursor stays 0, no response record is produced,
\* the question sets and the typed response list are unchanged (and so are
\* the name, the key and the store).
C33_ConfirmationOnlyMovesPhase ==
    [][ /\ (phase = "video_intro" /\ app_mode = "student" /\ call = "idle")
              => ENABLED BeginVideo
        /\ last'.op = "BeginVideo"
              => /\ phase = "video_intro"
                 /\ phase' = "video"
                 /\ q_index = 0
                 /\ q_index' = 0
                 /\ video_responses = <<>>
                 /\ UNCHANGED <<typed_responses, video_responses, questions,
                                student_name, api_key, store, app_mode>> ]_vars

\* C33 happens: the confirmation was given after the typed answers
C33_Witness ==
    /\ last.op = "BeginVideo"
    /\ phase = "video"
    /\ q_index = 0
    /\ typed_responses # <<>>
    /\ Len(questions.video) = 2

\* the records rs are the answers to the first questions of qs, in order
Follows(rs, qs) ==
    /\ Len(rs) <= Len(qs)
    /\ \A i \in 1..Len(rs) :
          /\ rs[i].question_id = qs[i].id
          /\ rs[i].question = qs[i].question

\* C34: the response lists follow the selected question order: the i-th
\* typed (video) response carries the id and the text of the i-th question
\* of the typed (video) set; there are as many typed responses as the
\* cursor says during typed and as the typed set has questions afterwards,
\* and as many video responses as the cursor says during video.
C34_ResponsesFollowQuestions ==
    /\ Follows(typed_responses, questions.typed)
    /\ Follows(video_responses, questions.video)
    /\ phase = "typed" => Len(typed_responses) = q_index
    /\ phase \in {"video_intro", "video", "complete"}
          => Len(typed_responses) = Len(questions.typed)
    /\ phase = "video" => Len(video_responses) = q_index

\* C34 happens: on the second video question, after two typed answers
C34_Witness ==
    /\ phase = "video"
    /\ q_index = 1
    /\ Len(video_responses) = 1
    /\ Len(typed_responses) = 2
    /\ typed_responses[1].question_id # typed_responses[2].question_id

\* C35: when the student goes on (answers, confirms the introduction,
\* submits the notes), a started session with at least one typed and one
\* video question reaches complete, with one response to each typed and to
\* each video question.
C35_EventuallyComplete ==
    ( /\ phase = "typed"
      /\ Len(questions.typed) >= 1
      /\ Len(questions.video) >= 1 )
    ~> ( /\ phase = "complete"
         /\ Len(typed_responses) = Len(questions.typed)
         /\ Len(video_responses) = Len(questions.video) )

\* the countdown of question i is started
Started(i) == i \in DOMAIN timer_started /\ timer_started[i]

\* C36: within one session the countdown of a video question is started at
\* most once: once it is started, the stored expiry instant of question i
\* stays as it is until the session is reset, and the start of the countdown
\* of question j, which was not started before, changes the expiry instant
\* of no other question.
C36_TimerStartedOnce ==
    [][ /\ \A i \in DOMAIN timer_started :
              (Started(i) /\ last'.op \notin ResetEvents)
                 => /\ i \in DOMAIN timer_started'
                    /\ timer_started'[i]
                    /\ timer_end'[i] = timer_end[i]
        /\ last'.op = "StartTimer"
              => /\ ~Started(q_index)
                 /\ timer_started'[q_index]
                 /\ timer_end'[q_index] = now + TimerTicks
                 /\ \A i \in DOMAIN timer_started \ {q_index} :
                       /\ timer_started'[i] = timer_started[i]
                       /\ Started(i) => timer_end'[i] = timer_end[i] ]_vars

\* C36 happens: the countdown of the second question was started after that
\* of the first, at another instant
C36_Witness ==
    /\ last.op = "StartTimer"
    /\ q_index = 1
    /\ Started(0)
    /\ Started(1)
    /\ timer_end[0] # timer_end[1]

\* C37: the feedback client is called at most once for a typed submission
\* that was not rejected, before the record is appended (while the call is
\* pending the record is not in the list; the appended record holds what
\* the call returned); it is not called for a rejected submission nor for a
\* submission of notes, and no video record carries a feedback text.
C37_FeedbackOnlyForTyped ==
    [][ /\ \A i \in 1..Len(video_responses') :
              "ai_feedback" \notin DOMAIN video_responses'[i]
        /\ call' = "pending"
              => phase' = "typed" /\ Len(typed_responses') = q_index'
        /\ feedback_calls' \in {feedback_calls, feedback_calls + 1}
        /\ feedback_calls' # feedback_calls
              => /\ last'.op \in {"SubmitTyped", "SubmitTypedBlocks"}
                 /\ Strip(last'.input) # <<>>
                 /\ api_key = "key"
                 /\ \/ /\ call' = "pending"
                       /\ typed_responses' = typed_responses
                    \/ /\ call' = "idle"
                       /\ GrewByOne(typed_responses, typed_responses')
                       /\ "ai_feedback" \in
                             DOMAIN typed_responses'[Len(typed_responses')]
        /\ last'.op = "SubmitNotes" => feedback_calls' = feedback_calls
        /\ (last'.op = "SubmitTyped" /\ Strip(last'.input) = <<>>)
              => feedback_calls' = feedback_calls ]_vars

\* C37 happens: notes were submitted in a session with a key, after the
\* feedback client was called for each typed answer
C37_Witness ==
    /\ last.op = "SubmitNotes"
    /\ api_key = "key"
    /\ video_responses # <<>>
    /\ feedback_calls = Len(typed_responses)
    /\ feedback_calls >= 2

\* the text of 'session_timestamp' of a loaded session
Stamp(x) == Get(x, "session_timestamp", JStr(<<>>)).v

\* no session of the list is older than one that comes after it
NewestFirst(ss) ==
    \A i, j \in 1..Len(ss) : i < j => ~StrLess(Stamp(ss[i]), Stamp(ss[j]))

\* the sessions of sub are sessions of ss, in the order they have in ss
RECURSIVE InOrderOf(_, _)
InOrderOf(sub, ss) ==
    IF sub = <<>> THEN TRUE
    ELSE IF ss = <<>> THEN FALSE
    ELSE IF Head(sub) = Head(ss) THEN InOrderOf(Tail(sub), Tail(ss))
    ELSE InOrderOf(sub, Tail(ss))

\* C38: load_all_sessions returns the stored sessions, one for each file,
\* ordered by session_timestamp with the newest first, and each choice of
\* the student filter keeps that order.
C38_NewestFirst ==
    last.op = "ShowTeacherDashboard" =>
        /\ loader.pc = "returned"
        /\ Len(loader.sessions) = Cardinality(DOMAIN disk)
        /\ NewestFirst(loader.sessions)
        /\ \A selected \in FilterOptions(app, loader.sessions) :
              LET chosen == Filtered(app, loader.sessions, selected)
              IN /\ NewestFirst(chosen)
                 /\ InOrderOf(chosen, loader.sessions)
                 /\ \A i \in 1..Len(loader.sessions) :
                       LET x == loader.sessions[i]
                       IN (\E k \in 1..Len(chosen) : chosen[k] = x)
                             <=> \/ selected = AllLabel(app)
                                 \/ Get(x, "student_name", Absent)
                                       = JStr(selected)

\* C38 happens: two sessions of one student, saved at different instants,
\* were loaded and the filter was set to that student
C38_Witness ==
    /\ last.op = "ShowTeacherDashboard"
    /\ last.input = <<"A">>
    /\ Len(loader.sessions) = 2
    /\ Stamp(loader.sessions[1]) # Stamp(loader.sessions[2])
    /\ Len(Filtered(app, loader.sessions, <<"A">>)) = 2

\* C39: in the recorder a recording never outlasts the time limit: the
\* countdown starts at time_limit and goes down by one with each tick of
\* the interval, the recording is stopped when it reaches 0, the number
\* shown is never below 0, and at most one interval is active at any time,
\* whatever the order of start, stop, retry and start again.
C39_RecorderCountdown ==
    [][ LET r == recorder'
        IN /\ Cardinality(r.intervals) <= 1
           /\ r.timer >= 0
           /\ r.recorded <= RecorderTimeLimit
           /\ r.mediaRecorder = "recording"
                 => /\ r.timeLeft > 0
                    /\ r.intervals = {r.timerInterval}
                    /\ r.recorded + r.timeLeft = RecorderTimeLimit
           /\ (last'.op = "ClickStart" /\ recorder.stream)
                 => /\ r.timeLeft = RecorderTimeLimit
                    /\ r.mediaRecorder = "recording"
           /\ last'.op = "IntervalFires"
                 => /\ r.timeLeft = recorder.timeLeft - 1
                    /\ r.timer = r.timeLeft
                    /\ r.timeLeft = 0
                          => /\ r.mediaRecorder = "inactive"
                             /\ r.intervals = {} ]_vars

\* C39 happens: a recording that was started after another one was made
\* has run for the whole time limit and was stopped by the countdown
C39_Witness ==
    /\ last.op = "IntervalFires"
    /\ recorder.timeLeft = 0
    /\ recorder.recorded = RecorderTimeLimit
    /\ recorder.mediaRecorder = "inactive"
    /\ recorder.stopping
    /\ recorder.videoData
    /\ recorder.posted

====
